---- MODULE Spec2Model ----
(***************************************************************************)
(* Model of the react-flush-observer detector.                             *)
(*                                                                         *)
(* Two revisions of the detector live in the repository:                   *)
(*   - src/src/detector.ts      backward-looking flush attribution with a  *)
(*                              per-task cap on flush reports              *)
(*   - src/unnamed/part_017     forward-looking cascade chain plus the     *)
(*                              backward fallback                          *)
(* Loop detection, freeze/unfreeze, dispose and setBreakOnLoop are the     *)
(* same code in both; a run is of one revision, cfg.revision.  The host    *)
(* (renderer + event loop) is the                                          *)
(* environment: it feeds commits, writes the root's scheduling fields,     *)
(* lets time pass, runs microtasks before the next macrotask, and delivers *)
(* timers and the MessageChannel message as macrotasks in any order.       *)
(***************************************************************************)
EXTENDS Integers, Sequences, FiniteSets, TLC

VARIABLES
    hook,         \* window.__REACT_DEVTOOLS_GLOBAL_HOOK__ (slot), and what
                  \* install() found there and captured (existingHook)
    cfg,          \* DetectorConfig after defaults (fixed at createDetector),
                  \* and which revision of the detector was built
    state,        \* DetectorState
    breakConfig,  \* { sync, async } resolved break mode
    roots,        \* the live FiberRoot objects
    timers,       \* pending setTimeout(0) callbacks, FIFO
    microtasks,   \* pending queueMicrotask callbacks, FIFO
    channel,      \* MessageChannel: messages in flight, ports closed
    now,          \* Date.now()
    out,          \* what the caller-supplied callbacks have received
    g             \* history of the run (not program state)

vars == <<hook, cfg, state, breakConfig, roots, timers, microtasks, channel, now, out, g>>

----------------------------------------------------------------------------
(* Bounds of the model *)

StartTime == 10         \* Date.now() at construction, well past any windowMs
MaxTime == 13           \* the clock stops here
LoopCommits == 5        \* handleCommit calls in a run of SpecLoop
MaxTaskThreshold == 2   \* maxCommitsPerTask is configured in 1..MaxTaskThreshold
MaxWindowCapacity == 2  \* maxCommitsPerWindow is configured in 1..MaxWindowCapacity
WindowMs == 2           \* the configured windowMs
FreezeCommits == 3      \* handleCommit calls in a run of SpecFreeze
FlushCommits == 3       \* handleCommit calls in a run of Spec
FlushMaxTime == 11      \* the clock stops here in a run of Spec
DisposeCommits == 5     \* handleCommit calls in a run of SpecDispose
ThrowCommits == 4       \* handleCommit calls in a run of SpecThrow
InstallCommits == 4     \* commits in a run of SpecInstall
ChainCommits == 4       \* handleCommit calls in a run of SpecChain
CapCommits == 7         \* handleCommit calls in a run of SpecCap
ThawCommits == 4        \* handleCommit calls in a run of SpecThaw
QuietCommits == 4       \* handleCommit calls in a run of SpecQuiet
BreakCommits == 3       \* handleCommit calls in a run of SpecBreak
MaxFibers == 2          \* fibers in each list of a snapshot given to the classifier
MaxDisposeCalls == 3    \* dispose() calls in a run of SpecDispose

(* Program constants *)

NoLane == 0
SyncLane == 1
MAX_FLUSH_REPORTS_PER_TASK == 3

(* null / undefined, one per type so that values stay comparable *)
Null == "null"                 \* a null string or callback reference
Absent == "undefined"          \* an absent callback reference
Nil == [nil |-> TRUE]          \* a null object (snapshot, user frame, originals)
NoStack == <<>>                \* a null (or empty) stack string
NoNum == -1                    \* an absent number (undefined slot, null window)

Roots == {"rootA", "rootB"}

----------------------------------------------------------------------------
(* Fibers, snapshots and call stacks fed by the host *)

FiberA == [ownerName |-> "A", effectSource |-> Null, source |-> "A.jsx:1"]
FiberL == [ownerName |-> "L", effectSource |-> "setX(1)", source |-> "L.jsx:2"]
FiberStale == [ownerName |-> "S", effectSource |-> Null, source |-> "S.jsx:3"]
FiberLazy == [ownerName |-> "Lazy", effectSource |-> Null, source |-> Null]

SnapUpdates ==
    [withPassiveEffects |-> <<FiberA>>, withLayoutEffects |-> <<>>,
     withSuspense |-> <<>>, withUpdates |-> <<FiberA>>]
SnapLayout ==
    [withPassiveEffects |-> <<>>, withLayoutEffects |-> <<FiberStale, FiberL>>,
     withSuspense |-> <<>>, withUpdates |-> <<FiberA>>]
SnapSuspense ==
    [withPassiveEffects |-> <<>>, withLayoutEffects |-> <<FiberL>>,
     withSuspense |-> <<FiberLazy>>, withUpdates |-> <<>>]

Snapshots == {SnapUpdates, SnapLayout, SnapSuspense}

(* a frame "at fn (file:line)"; the file is its path, segment by segment *)
FrameCommit == [fn |-> "commitRootImpl", file |-> <<"node_modules", "react-dom", "index.js">>, line |-> 7]
FrameCallbacks == [fn |-> "flushSyncCallbacks", file |-> <<"node_modules", "react-dom", "index.js">>, line |-> 8]
FrameFlushSync == [fn |-> "flushSync", file |-> <<"node_modules", "react-dom", "index.js">>, line |-> 9]
FrameTimer == [fn |-> "onTimeout", file |-> <<"src", "App.jsx">>, line |-> 10]
FrameClick == [fn |-> "handleClick", file |-> <<"src", "Form.jsx">>, line |-> 20]

StackTimer == <<FrameCommit, FrameCallbacks, FrameTimer>>
StackFlushSync == <<FrameCommit, FrameFlushSync, FrameClick>>
StackInternal == <<FrameCommit, FrameCallbacks>>

Stacks == {StackTimer, StackFlushSync}

(* Math.random() in hundredths, and the sample rates a caller may pass *)
RandomDraws == {0, 99}

----------------------------------------------------------------------------
(* Pure helpers *)

RECURSIVE WithEffectSource(_)
WithEffectSource(fibers) ==
    IF fibers = <<>> THEN <<>>
    ELSE IF Head(fibers).effectSource # Null
         THEN <<Head(fibers)>> \o WithEffectSource(Tail(fibers))
         ELSE WithEffectSource(Tail(fibers))

(* bug: layout effects are looked at before suspense boundaries *)
classifyPatternLayoutFirst(snapshot) ==
    IF Len(snapshot.withLayoutEffects) > 0
    THEN LET withEffectSource == WithEffectSource(snapshot.withLayoutEffects)
         IN  [pattern |-> "setState-in-layout-effect",
              suspects |-> IF Len(withEffectSource) > 0 THEN withEffectSource
                           ELSE snapshot.withLayoutEffects,
              evidence |-> "Layout effect triggered state update"]
    ELSE IF Len(snapshot.withSuspense) > 0
    THEN [pattern |-> "lazy-in-render",
          suspects |-> snapshot.withSuspense,
          evidence |-> "Suspense boundary captured during commit"]
    ELSE [pattern |-> "setState-outside-react",
          suspects |-> <<>>,
          evidence |-> "Multiple commits in same task without React batching"]

(* src/src/classifier.ts *)
classifyPattern(snapshot) ==
    IF Len(snapshot.withSuspense) > 0
    THEN [pattern |-> "lazy-in-render",
          suspects |-> snapshot.withSuspense,
          evidence |-> "Suspense boundary captured during commit"]
    ELSE IF Len(snapshot.withLayoutEffects) > 0
    THEN LET withEffectSource == WithEffectSource(snapshot.withLayoutEffects)
         IN  [pattern |-> "setState-in-layout-effect",
              suspects |-> IF Len(withEffectSource) > 0 THEN withEffectSource
                           ELSE snapshot.withLayoutEffects,
              evidence |-> "Layout effect triggered state update"]
    ELSE [pattern |-> "setState-outside-react",
          suspects |-> <<>>,
          evidence |-> "Multiple commits in same task without React batching"]

(* src/unnamed/part_018: the same classifier, except that the fallback *)
(* names the fibers with pending updates                               *)
classifyPatternWithUpdates(snapshot) ==
    IF Len(snapshot.withSuspense) > 0 \/ Len(snapshot.withLayoutEffects) > 0
    THEN classifyPattern(snapshot)
    ELSE [pattern |-> "setState-outside-react",
          suspects |-> snapshot.withUpdates,
          evidence |-> "Multiple commits in same task without React batching"]

hasFlushSyncInStack(stack) ==
    IF stack = NoStack THEN FALSE
    ELSE \E i \in 1..Len(stack) : stack[i].fn = "flushSync"

internalPatterns ==
    {"node_modules", "react-flush-observer", "react-dom", "react-reconciler",
     "scheduler", "react.development"}

isInternalFrame(frame) ==
    \E i \in 1..Len(frame.file) : frame.file[i] \in internalPatterns

RECURSIVE parseUserFrame(_)
parseUserFrame(stack) ==
    IF stack = NoStack THEN Nil
    ELSE IF isInternalFrame(Head(stack)) THEN parseUserFrame(Tail(stack))
         ELSE [fileName |-> Head(stack).file, lineNumber |-> Head(stack).line]

RECURSIVE NamesOf(_, _)
NamesOf(fibers, acc) ==
    IF fibers = <<>> THEN acc
    ELSE NamesOf(Tail(fibers), Append(acc, Head(fibers).ownerName))

RECURSIVE NewNamesOf(_, _)
NewNamesOf(fibers, acc) ==
    IF fibers = <<>> THEN acc
    ELSE IF \E i \in 1..Len(acc) : acc[i] = Head(fibers).ownerName
         THEN NewNamesOf(Tail(fibers), acc)
         ELSE NewNamesOf(Tail(fibers), Append(acc, Head(fibers).ownerName))

getComponentNames(snapshot) ==
    NewNamesOf(snapshot.withUpdates, NamesOf(snapshot.withLayoutEffects, <<>>))

(* setStateLocation of a flush report *)
LayoutSource(snapshot) ==
    LET withSrc == WithEffectSource(snapshot.withLayoutEffects)
    IN  IF Len(withSrc) > 0 THEN withSrc[1].source
        ELSE IF Len(snapshot.withLayoutEffects) > 0 THEN snapshot.withLayoutEffects[1].source
             ELSE Null

(* a breakOnLoop value: a boolean [b |-> ..] or an object whose sync and   *)
(* async members are "true", "false" or Absent                             *)
BreakValues ==
    [b : BOOLEAN] \cup [sync : {"true", "false", Absent}, async : {"true", "false", Absent}]

(* bug: a strategy that an object does not name is switched off *)
resolveBreakConfigMissingOff(value) ==
    IF "b" \in DOMAIN value THEN [sync |-> value.b, async |-> value.b]
    ELSE [sync |-> value.sync = "true", async |-> value.async = "true"]

(* bug: an object's sync member decides both strategies *)
resolveBreakConfigShared(value) ==
    IF "b" \in DOMAIN value THEN [sync |-> value.b, async |-> value.b]
    ELSE [sync |-> IF value.sync = Absent THEN TRUE ELSE value.sync = "true",
          async |-> IF value.sync = Absent THEN TRUE ELSE value.sync = "true"]

resolveBreakConfig(value) ==
    IF "b" \in DOMAIN value THEN [sync |-> value.b, async |-> value.b]
    ELSE [sync |-> IF value.sync = Absent THEN TRUE ELSE value.sync = "true",
          async |-> IF value.async = Absent THEN TRUE ELSE value.async = "true"]

----------------------------------------------------------------------------
(* The root object.  While `frozen` the three fields are accessor          *)
(* properties; otherwise they are the data properties stored in the record *)

(* bug: the override answers with the value the root had when it was frozen *)
ReadPendingLanesOriginal(root) ==
    IF root.frozen THEN root.frozenOriginals.pendingLanes ELSE root.pendingLanes

ReadPendingLanes(root) == IF root.frozen THEN NoLane ELSE root.pendingLanes

(* bug: the override answers NoLane *)
ReadCallbackPriorityNoLane(root) == IF root.frozen THEN NoLane ELSE root.callbackPriority

ReadCallbackPriority(root) == IF root.frozen THEN SyncLane ELSE root.callbackPriority

ReadCallbackNode(root) == IF root.frozen THEN Null ELSE root.callbackNode

(* bug: a root that lacks callbackPriority or callbackNode is left alone *)
freezeRootLanesPresentOnly(root) ==
    IF root.callbackPriority = NoNum \/ root.callbackNode = Absent THEN root
    ELSE [frozen |-> TRUE,
          pendingLanes |-> NoNum, callbackPriority |-> NoNum, callbackNode |-> Absent,
          frozenOriginals |-> [pendingLanes |-> ReadPendingLanes(root),
                               callbackPriority |-> ReadCallbackPriority(root),
                               callbackNode |-> ReadCallbackNode(root)]]

freezeRootLanes(root) ==
    [frozen |-> TRUE,
     pendingLanes |-> NoNum, callbackPriority |-> NoNum, callbackNode |-> Absent,
     frozenOriginals |-> [pendingLanes |-> ReadPendingLanes(root),
                          callbackPriority |-> ReadCallbackPriority(root),
                          callbackNode |-> ReadCallbackNode(root)]]

(* bug: unfreeze puts the pre-freeze pendingLanes and callbackPriority back *)
unfreezeRootLanesRestoreAll(root) ==
    [frozen |-> FALSE,
     pendingLanes |-> IF root.frozenOriginals = Nil THEN NoLane
                      ELSE root.frozenOriginals.pendingLanes,
     callbackPriority |-> IF root.frozenOriginals = Nil THEN NoLane
                          ELSE root.frozenOriginals.callbackPriority,
     callbackNode |-> IF root.frozenOriginals = Nil
                         \/ root.frozenOriginals.callbackNode = Absent
                      THEN Null ELSE root.frozenOriginals.callbackNode,
     frozenOriginals |-> Nil]

unfreezeRootLanes(root) ==
    [frozen |-> FALSE,
     pendingLanes |-> NoLane,
     callbackPriority |-> NoLane,
     callbackNode |-> IF root.frozenOriginals = Nil
                         \/ root.frozenOriginals.callbackNode = Absent
                      THEN Null ELSE root.frozenOriginals.callbackNode,
     frozenOriginals |-> Nil]

ReadRoot(root, prop) ==
    IF prop = "pendingLanes" THEN ReadPendingLanes(root)
    ELSE IF prop = "callbackPriority" THEN ReadCallbackPriority(root)
         ELSE ReadCallbackNode(root)

WriteRoot(root, prop, v) ==
    IF root.frozen THEN root ELSE [root EXCEPT ![prop] = v]

----------------------------------------------------------------------------
(* Construction *)


(* an idle root, a root with scheduled work, and a minimal root that has *)
(* no callbackPriority and no callbackNode                               *)
InitRoot ==
    [frozen |-> FALSE, pendingLanes |-> NoLane, callbackPriority |-> NoLane,
     callbackNode |-> Null, frozenOriginals |-> Nil]
BusyRoot ==
    [frozen |-> FALSE, pendingLanes |-> SyncLane, callbackPriority |-> SyncLane,
     callbackNode |-> "task", frozenOriginals |-> Nil]
MinimalRoot ==
    [frozen |-> FALSE, pendingLanes |-> SyncLane, callbackPriority |-> NoNum,
     callbackNode |-> Absent, frozenOriginals |-> Nil]

InitState ==
    [commitInCurrentTask |-> FALSE,
     taskBoundaryPending |-> FALSE,
     lastCommitTime |-> 0,
     lastCommitSnapshot |-> Nil,
     commitCountInCurrentTask |-> 0,
     syncLoopFiredThisTask |-> FALSE,
     flushReportsThisTask |-> 0,
     windowTimestamps |-> [i \in 0..(cfg.maxCommitsPerWindow - 1) |-> NoNum],
     windowWritePos |-> 0,
     windowFilled |-> FALSE,
     lastAsyncLoopFireTime |-> 0,
     lastCommitStack |-> NoStack,
     disposed |-> FALSE,
     cascadeChainActive |-> FALSE,
     cascadeOriginSnapshot |-> Nil,
     cascadeOriginStack |-> NoStack,
     cascadeOriginTime |-> 0,
     reportedForCurrentChain |-> FALSE,
     hadCommitInCurrentTask |-> FALSE]

(* what a breakOnLoop value says about each strategy: "true", "false", or *)
(* Absent for a strategy that an object does not name                    *)
namedModes(value) ==
    IF "b" \in DOMAIN value
    THEN [sync |-> IF value.b THEN "true" ELSE "false",
          async |-> IF value.b THEN "true" ELSE "false"]
    ELSE [sync |-> value.sync, async |-> value.async]

InitHistory ==
    [fed |-> 0,             \* handleCommit calls so far
     handled |-> 0,         \* those made before dispose
     taskCommits |-> 0,     \* commits handled since the last task-boundary signal
     syncFires |-> 0,       \* bounded firings since the last task-boundary signal
     asyncFires |-> 0,      \* unbounded firings so far
     syncTotal |-> 0,       \* bounded firings so far
     asyncAt |-> <<>>,      \* Date.now() of every unbounded firing so far
     times |-> <<>>,        \* Date.now() of every commit handled so far (runs
                            \* without a flush callback)
     recorded |-> <<>>,     \* Date.now() of every commit written to the ring
                            \* buffer so far (runs without a flush callback)
     lastLoop |-> Nil,      \* the LoopReport built last, with the commit that fired it
     frozenBy |-> [r \in Roots |-> "none"],
                            \* break-mode firings on the root that no deferred
                            \* unfreeze has followed yet: "sync" if a bounded one
                            \* is among them, else "async", else "none"
     requested |-> namedModes(cfg.breakOnLoop),
                            \* what the configuration or the most recent
                            \* setBreakOnLoop call said about each strategy
     slotTask |-> IF cfg.onFlush THEN <<>>
                  ELSE [i \in 0..(cfg.maxCommitsPerWindow - 1) |-> "none"],
                            \* for each ring buffer slot, the task of the commit
                            \* whose time it holds: "current", or an earlier one
                            \* in which the bounded strategy "fired" or one that
                            \* stayed "clean" (runs without a flush callback)
     disposeCalls |-> 0,    \* calls of dispose() so far
     held |-> Absent,       \* what the hook slot held when install() was called
     thrown |-> 0,          \* handleCommit calls that ended in an exception
     late |-> {},           \* callbacks that ran after dispose()
     stored |-> [r \in Roots |-> Nil],
                            \* what the renderer had stored in the root's fields
                            \* when the root last went from unfrozen to frozen
     captured |-> [r \in Roots |-> Nil],
                            \* what the root's fields read when it was last frozen
     lastWrite |-> Nil,     \* the renderer's last assignment to a root field
     task |-> <<>>]         \* the commits handled since the last task-boundary
                            \* signal (runs with a flush callback): snapshot,
                            \* stack, time, whether the root read SyncLane
                            \* pending on entry and on return, the loop strategy
                            \* that fired and whether a FlushReport was emitted

InitOut ==
    [flushCount |-> 0, lastFlush |-> Nil, loopCount |-> 0, lastLoop |-> Nil,
     frozenSeen |-> {}]

createDetector(config) ==
    /\ cfg = config
    /\ breakConfig = resolveBreakConfig(config.breakOnLoop)
    /\ state = InitState
    /\ channel = [inFlight |-> 0, closed |-> FALSE]

(* no observer installed *)
NoHook == [slot |-> Absent, existingHook |-> Absent, installed |-> FALSE]

InitHost ==
    /\ hook = NoHook
    /\ timers = <<>>
    /\ microtasks = <<>>
    /\ now = StartTime
    /\ out = InitOut
    /\ g = InitHistory

(* configurations of the runs that exercise loop detection: no flush     *)
(* callback, either break mode                                            *)
LoopConfigs ==
    [revision : {"backward"}, sampleRate : {100}, onFlush : {FALSE}, onLoop : {TRUE},
     maxCommitsPerTask : 1..MaxTaskThreshold,
     maxCommitsPerWindow : 1..MaxWindowCapacity,
     windowMs : {WindowMs},
     breakOnLoop : {[b |-> TRUE], [b |-> FALSE]}]

InitLoop ==
    /\ \E config \in LoopConfigs : createDetector(config)
    /\ InitHost
    /\ roots = [r \in Roots |-> InitRoot]

(* configurations of the runs that exercise the intervention: low         *)
(* thresholds, so that both strategies fire within a few commits          *)
FreezeConfigs ==
    [revision : {"backward"}, sampleRate : {100}, onFlush : {FALSE}, onLoop : {TRUE},
     maxCommitsPerTask : {1, 2}, maxCommitsPerWindow : {1}, windowMs : {WindowMs},
     breakOnLoop : {[b |-> TRUE], [sync |-> Absent, async |-> "false"]}]

InitFreeze ==
    /\ \E config \in FreezeConfigs : createDetector(config)
    /\ InitHost
    /\ roots = [r \in Roots |-> IF r = "rootA" THEN BusyRoot ELSE MinimalRoot]

(* configurations of the runs that exercise flush attribution: either    *)
(* revision, a flush callback, sampling full or off, a bounded threshold  *)
(* within or beyond the reach of a run                                    *)
FlushConfigs ==
    [revision : {"backward", "forward"}, sampleRate : {0, 100},
     onFlush : {TRUE}, onLoop : {TRUE},
     maxCommitsPerTask : {2, 3}, maxCommitsPerWindow : {3}, windowMs : {WindowMs},
     breakOnLoop : {[b |-> TRUE]}]

(* rootA has synchronous work pending when it commits, rootB has none *)
Init ==
    /\ \E config \in FlushConfigs : createDetector(config)
    /\ InitHost
    /\ roots = [r \in Roots |-> IF r = "rootA" THEN BusyRoot ELSE InitRoot]

(* configurations of the runs that exercise dispose *)
DisposeConfigs ==
    [revision : {"backward", "forward"}, sampleRate : {100},
     onFlush : {TRUE}, onLoop : {TRUE},
     maxCommitsPerTask : {2}, maxCommitsPerWindow : {3}, windowMs : {WindowMs},
     breakOnLoop : {[b |-> TRUE]}]

InitDispose ==
    /\ \E config \in DisposeConfigs : createDetector(config)
    /\ InitHost
    /\ roots = [r \in Roots |-> IF r = "rootA" THEN BusyRoot ELSE InitRoot]

----------------------------------------------------------------------------
(* Loop detection and intervention (same code in both revisions) *)

buildLoopReport(pattern, commitCount, windowDuration, snap, stk) ==
    [type |-> "loop",
     pattern |-> pattern,
     commitCount |-> commitCount,
     windowMs |-> windowDuration,
     stack |-> stk,
     suspects |-> getComponentNames(snap),
     triggeringCommit |-> state.lastCommitSnapshot,
     forcedCommit |-> snap,
     userFrame |-> parseUserFrame(stk),
     timestamp |-> now]

(* bug: every firing intervenes, whatever the mode *)
shouldBreakAlways(pattern) == TRUE

shouldBreak(pattern) ==
    IF pattern = "sync" THEN breakConfig.sync ELSE breakConfig.async

(* the root, timer queue and microtask queue after handleLoopDetection *)
handleLoopDetection(r, report) ==
    IF shouldBreak(report.pattern)
    THEN [roots |-> [roots EXCEPT ![r] = freezeRootLanes(@)],
          timers |-> Append(timers, [root |-> r, report |-> report]),
          microtasks |-> microtasks]
    ELSE [roots |-> roots,
          timers |-> timers,
          microtasks |-> Append(microtasks, report)]

noLoopDetection ==
    [roots |-> roots, timers |-> timers, microtasks |-> microtasks]

(* bug: the threshold itself already counts as a loop *)
syncLoopDetectedAtThreshold(count) ==
    /\ count >= cfg.maxCommitsPerTask
    /\ ~state.syncLoopFiredThisTask

syncLoopDetected(count) ==
    /\ count > cfg.maxCommitsPerTask
    /\ ~state.syncLoopFiredThisTask

windowSpan == now - state.windowTimestamps[state.windowWritePos]

(* bug: no cooldown between unbounded firings *)
asyncLoopDetectedNoCooldown ==
    /\ state.windowFilled
    /\ ~state.syncLoopFiredThisTask
    /\ state.windowTimestamps[state.windowWritePos] # NoNum
    /\ windowSpan < cfg.windowMs

(* bug: the unbounded check also runs after the bounded strategy fired *)
asyncLoopDetectedAfterSync ==
    /\ state.windowFilled
    /\ state.windowTimestamps[state.windowWritePos] # NoNum
    /\ windowSpan < cfg.windowMs
    /\ now - state.lastAsyncLoopFireTime > cfg.windowMs

(* bug: the spam guard is permanent: after a firing the strategy is silent *)
asyncLoopDetectedOnce ==
    /\ state.windowFilled
    /\ ~state.syncLoopFiredThisTask
    /\ state.windowTimestamps[state.windowWritePos] # NoNum
    /\ windowSpan < cfg.windowMs
    /\ state.lastAsyncLoopFireTime = 0

(* bug: the cooldown ends when exactly windowMs has passed *)
asyncLoopDetectedCooldownInclusive ==
    /\ state.windowFilled
    /\ ~state.syncLoopFiredThisTask
    /\ state.windowTimestamps[state.windowWritePos] # NoNum
    /\ windowSpan < cfg.windowMs
    /\ now - state.lastAsyncLoopFireTime >= cfg.windowMs

(* bug: a span of exactly windowMs counts as inside the window *)
asyncLoopDetectedInclusive ==
    /\ state.windowFilled
    /\ ~state.syncLoopFiredThisTask
    /\ state.windowTimestamps[state.windowWritePos] # NoNum
    /\ windowSpan <= cfg.windowMs
    /\ now - state.lastAsyncLoopFireTime > cfg.windowMs

asyncLoopDetected ==
    /\ state.windowFilled
    /\ ~state.syncLoopFiredThisTask
    /\ state.windowTimestamps[state.windowWritePos] # NoNum
    /\ windowSpan < cfg.windowMs
    /\ now - state.lastAsyncLoopFireTime > cfg.windowMs

(* state after the bounded strategy fired: handleCommit returns early *)
syncFiredState(count) ==
    [state EXCEPT !.commitCountInCurrentTask = count,
                  !.syncLoopFiredThisTask = TRUE,
                  !.windowFilled = FALSE,
                  !.windowWritePos = 0,
                  !.lastAsyncLoopFireTime = now]

(* bug: a commit on which the unbounded check is skipped is not recorded *)
recordInWindowUnlessSkipped(st) ==
    IF st.syncLoopFiredThisTask THEN st
    ELSE LET pos == (st.windowWritePos + 1) % cfg.maxCommitsPerWindow
         IN  [st EXCEPT !.windowTimestamps[st.windowWritePos] = now,
                        !.windowWritePos = pos,
                        !.windowFilled = st.windowFilled \/ pos = 0]

(* bug: the buffer counts as filled from the first commit on *)
recordInWindowFilledAtOnce(st) ==
    LET pos == (st.windowWritePos + 1) % cfg.maxCommitsPerWindow
    IN  [st EXCEPT !.windowTimestamps[st.windowWritePos] = now,
                   !.windowWritePos = pos,
                   !.windowFilled = TRUE]

(* the ring buffer fields after recording this commit *)
recordInWindow(st) ==
    LET pos == (st.windowWritePos + 1) % cfg.maxCommitsPerWindow
    IN  [st EXCEPT !.windowTimestamps[st.windowWritePos] = now,
                   !.windowWritePos = pos,
                   !.windowFilled = st.windowFilled \/ pos = 0]

----------------------------------------------------------------------------
(* Flush attribution *)

userFrameOf(currentStack, previousStack) ==
    IF parseUserFrame(currentStack) # Nil THEN parseUserFrame(currentStack)
    ELSE parseUserFrame(previousStack)

(* src/unnamed/part_017: the FlushReport for an origin commit, or Nil when *)
(* the cascade is unknown and skipped                                      *)
buildFlushReport(originSnapshot, originStack, currentStack, originTime, nowT) ==
    LET classification == classifyPattern(originSnapshot)
        outside == classification.pattern = "setState-outside-react"
        flushSync == hasFlushSyncInStack(currentStack) \/ hasFlushSyncInStack(originStack)
    IN  IF outside /\ ~flushSync THEN Nil
        ELSE [type |-> "flush",
              timestamp |-> nowT,
              pattern |-> IF outside THEN "flushSync" ELSE classification.pattern,
              evidence |-> IF outside THEN "flushSync caused synchronous re-render"
                           ELSE classification.evidence,
              suspects |-> classification.suspects,
              flushedEffectsCount |-> Len(originSnapshot.withLayoutEffects),
              blockingDurationMs |-> nowT - originTime,
              setStateLocation |-> LayoutSource(originSnapshot),
              userFrame |-> userFrameOf(currentStack, originStack)]

(* bug: the forced commit itself is blamed *)
triggeringSnapshotCurrent(currentSnapshot) == currentSnapshot

(* state.lastCommitSnapshot ?? currentSnapshot *)
triggeringSnapshot(currentSnapshot) ==
    IF state.lastCommitSnapshot = Nil THEN currentSnapshot
    ELSE state.lastCommitSnapshot

(* bug: only the forced commit's own stack is searched for flushSync *)
forcedFlushReportCurrentStack(currentSnapshot, commitStack) ==
    buildFlushReport(triggeringSnapshot(currentSnapshot), NoStack, commitStack,
                     state.lastCommitTime, now)

(* src/src/detector.ts: the FlushReport of a forced flush, or Nil when *)
(* nothing is reported                                                 *)
forcedFlushReport(currentSnapshot, commitStack) ==
    LET trigger == triggeringSnapshot(currentSnapshot)
        classification == classifyPattern(trigger)
        outside == classification.pattern = "setState-outside-react"
        flushSync == hasFlushSyncInStack(commitStack)
                        \/ hasFlushSyncInStack(state.lastCommitStack)
    IN  IF outside /\ ~flushSync THEN Nil
        ELSE [type |-> "flush",
              timestamp |-> now,
              pattern |-> IF outside THEN "flushSync" ELSE classification.pattern,
              evidence |-> IF outside THEN "flushSync caused synchronous re-render"
                           ELSE classification.evidence,
              suspects |-> classification.suspects,
              flushedEffectsCount |-> Len(trigger.withLayoutEffects),
              blockingDurationMs |-> now - state.lastCommitTime,
              setStateLocation |-> LayoutSource(trigger),
              userFrame |-> userFrameOf(commitStack, state.lastCommitStack)]

(* bug: forced flushes are still reported after the bounded strategy fired *)
shouldReportFlushAfterLoop(st, rnd) ==
    /\ st.commitInCurrentTask
    /\ cfg.onFlush
    /\ st.flushReportsThisTask < MAX_FLUSH_REPORTS_PER_TASK
    /\ rnd < cfg.sampleRate

(* bug: no cap on the FlushReports of one task *)
shouldReportFlushUncapped(st, rnd) ==
    /\ st.commitInCurrentTask
    /\ cfg.onFlush
    /\ ~st.syncLoopFiredThisTask
    /\ rnd < cfg.sampleRate

(* bug: a commit counts as forced when it has the previous commit's time *)
shouldReportFlushByTime(st, rnd) ==
    /\ st.lastCommitSnapshot # Nil /\ now = st.lastCommitTime
    /\ cfg.onFlush
    /\ ~st.syncLoopFiredThisTask
    /\ st.flushReportsThisTask < MAX_FLUSH_REPORTS_PER_TASK
    /\ rnd < cfg.sampleRate

(* src/src/detector.ts; st is the state after the loop checks of this commit *)
shouldReportFlush(st, rnd) ==
    /\ st.commitInCurrentTask
    /\ cfg.onFlush
    /\ ~st.syncLoopFiredThisTask
    /\ st.flushReportsThisTask < MAX_FLUSH_REPORTS_PER_TASK
    /\ rnd < cfg.sampleRate

(* src/src/detector.ts: the flush part of handleCommit; the new state and *)
(* the report handed to onFlush, if any                                   *)
flushStepBackward(st, currentSnapshot, commitStack, rnd) ==
    LET flush == IF shouldReportFlush(st, rnd)
                 THEN forcedFlushReport(currentSnapshot, commitStack)
                 ELSE Nil
    IN  [flush |-> flush,
         state |-> [st EXCEPT !.flushReportsThisTask = IF flush # Nil THEN @ + 1 ELSE @,
                              !.commitInCurrentTask = TRUE,
                              !.lastCommitTime = now,
                              !.lastCommitSnapshot = currentSnapshot,
                              !.lastCommitStack = commitStack,
                              !.taskBoundaryPending = TRUE]]

(* bug: an active chain is reported on every commit that continues it *)
forwardReportDueEveryCommit == state.cascadeChainActive

(* src/unnamed/part_017, STEP 1 *)
forwardReportDue ==
    state.cascadeChainActive /\ ~state.reportedForCurrentChain

(* src/unnamed/part_017, STEP 2 *)
backwardReportDue ==
    /\ state.hadCommitInCurrentTask
    /\ ~state.cascadeChainActive
    /\ ~state.reportedForCurrentChain

(* bug: the chain is reported from the commit that arrives *)
chainReportFromCurrent(currentSnapshot, commitStack) ==
    buildFlushReport(currentSnapshot, commitStack, commitStack, now, now)

(* the report of STEP 1; the current snapshot plays no part in it *)
chainReport(currentSnapshot, commitStack) ==
    buildFlushReport(state.cascadeOriginSnapshot, state.cascadeOriginStack,
                     commitStack, state.cascadeOriginTime, now)

(* the report of STEP 2: in each of its three branches the report is the *)
(* one buildFlushReport builds from the previous commit                  *)
fallbackReport(currentSnapshot, commitStack) ==
    buildFlushReport(triggeringSnapshot(currentSnapshot), state.lastCommitStack,
                     commitStack, state.lastCommitTime, now)

(* root.pendingLanes & SyncLane *)
hasSyncLane(lanes) == lanes % 2 = 1

(* bug: the reported flag is kept for the task: neither the start nor the *)
(* end of a chain clears it                                               *)
forwardLookFlagPerTask(st, willCascade, currentSnapshot, commitStack) ==
    IF willCascade
    THEN IF ~st.cascadeChainActive
         THEN [st EXCEPT !.cascadeChainActive = TRUE,
                         !.cascadeOriginSnapshot = currentSnapshot,
                         !.cascadeOriginStack = commitStack,
                         !.cascadeOriginTime = now]
         ELSE st
    ELSE [st EXCEPT !.cascadeChainActive = FALSE,
                    !.cascadeOriginSnapshot = Nil]

(* src/unnamed/part_017, STEP 3: the forward look starts a chain, lets it *)
(* continue or closes it                                                  *)
forwardLook(st, willCascade, currentSnapshot, commitStack) ==
    IF willCascade
    THEN IF ~st.cascadeChainActive
         THEN [st EXCEPT !.cascadeChainActive = TRUE,
                         !.cascadeOriginSnapshot = currentSnapshot,
                         !.cascadeOriginStack = commitStack,
                         !.cascadeOriginTime = now,
                         !.reportedForCurrentChain = FALSE]
         ELSE st
    ELSE [st EXCEPT !.cascadeChainActive = FALSE,
                    !.cascadeOriginSnapshot = Nil,
                    !.reportedForCurrentChain = FALSE]

(* src/unnamed/part_017: the flush part of handleCommit (STEP 1 to 3 and *)
(* the update for the next commit); root is the committed root after the *)
(* loop checks                                                           *)
flushStepChain(st, root, currentSnapshot, commitStack, rnd) ==
    LET sampled == cfg.onFlush /\ ~st.syncLoopFiredThisTask /\ rnd < cfg.sampleRate
        flush == IF ~sampled THEN Nil
                 ELSE IF forwardReportDue THEN chainReport(currentSnapshot, commitStack)
                 ELSE IF backwardReportDue THEN fallbackReport(currentSnapshot, commitStack)
                 ELSE Nil
        st2 == [st EXCEPT !.reportedForCurrentChain = IF flush # Nil THEN TRUE ELSE @]
        willCascade == hasSyncLane(ReadPendingLanes(root))
        st3 == forwardLook(st2, willCascade, currentSnapshot, commitStack)
    IN  [flush |-> flush,
         state |-> [st3 EXCEPT !.hadCommitInCurrentTask = TRUE,
                               !.lastCommitTime = now,
                               !.lastCommitSnapshot = currentSnapshot,
                               !.lastCommitStack = commitStack,
                               !.taskBoundaryPending = TRUE]]

flushStep(st, root, currentSnapshot, commitStack, rnd) ==
    IF cfg.revision = "forward"
    THEN flushStepChain(st, root, currentSnapshot, commitStack, rnd)
    ELSE flushStepBackward(st, currentSnapshot, commitStack, rnd)

onFlush(report) ==
    [out EXCEPT !.flushCount = @ + 1, !.lastFlush = report]

(* the caller's loop callback runs: it receives the report and finds *)
(* the roots as they are at that moment                               *)
onLoop(report, rootsAtCall) ==
    IF cfg.onLoop
    THEN [out EXCEPT !.loopCount = @ + 1,
                     !.lastLoop = report,
                     !.frozenSeen = {r \in Roots : rootsAtCall[r].frozen}]
    ELSE out

(* bug: every commit posts a task-boundary message *)
postTaskBoundaryAlways(st) ==
    [channel EXCEPT !.inFlight = @ + 1]

(* if (!state.taskBoundaryPending) channel.port2.postMessage(null) *)
postTaskBoundary(st) ==
    IF st.taskBoundaryPending THEN channel
    ELSE [channel EXCEPT !.inFlight = @ + 1]

(* what the run remembers of a firing: the report and the commit it fired on *)
Fired(report) ==
    [report |-> report, atTaskCommit |-> g.taskCommits + 1, atCommit |-> g.fed + 1]

(* the history after a firing on root r *)
Firing(r, report) ==
    [g EXCEPT !.lastLoop = Fired(report),
              !.asyncAt = IF report.pattern = "async" THEN Append(@, now) ELSE @,
              !.frozenBy[r] = IF shouldBreak(report.pattern) /\ @ # "sync"
                              THEN report.pattern ELSE @,
              !.stored[r] = IF shouldBreak(report.pattern) /\ ~roots[r].frozen
                            THEN [pendingLanes |-> roots[r].pendingLanes,
                                  callbackPriority |-> roots[r].callbackPriority,
                                  callbackNode |-> roots[r].callbackNode]
                            ELSE @,
              !.captured[r] = IF shouldBreak(report.pattern)
                              THEN [pendingLanes |-> ReadPendingLanes(roots[r]),
                                    callbackPriority |-> ReadCallbackPriority(roots[r]),
                                    callbackNode |-> ReadCallbackNode(roots[r])]
                              ELSE @]

(* the tasks of the ring buffer slots after a commit wrote the slot at the *)
(* cursor, and after a task-boundary signal                               *)
SlotWritten ==
    IF cfg.onFlush THEN g.slotTask
    ELSE [g.slotTask EXCEPT ![state.windowWritePos] = "current"]

SlotsAtBoundary ==
    IF cfg.onFlush THEN g.slotTask
    ELSE [i \in DOMAIN g.slotTask |->
             IF g.slotTask[i] # "current" THEN g.slotTask[i]
             ELSE IF g.syncFires > 0 THEN "fired" ELSE "clean"]

(* what the run remembers of a handled commit: without a flush callback *)
(* its time, with one the commit itself                                 *)
Timed == IF cfg.onFlush THEN <<>> ELSE <<now>>

Handled(r, snap, stk, loop, flushed, rootAfter) ==
    IF cfg.onFlush
    THEN <<[snap |-> snap, stk |-> stk, time |-> now,
            bit |-> hasSyncLane(ReadPendingLanes(roots[r])),
            cascade |-> hasSyncLane(ReadPendingLanes(rootAfter)),
            loop |-> loop, flushed |-> flushed]>>
    ELSE <<>>

(* bug: a disposed detector keeps handling commits *)
isDisposedNever == FALSE

(* if (state.disposed) return; *)
isDisposed == state.disposed

HandleCommit(r, snap, stk, rnd) ==
    IF isDisposed
    THEN /\ g' = [g EXCEPT !.fed = @ + 1]
         /\ UNCHANGED <<hook, cfg, state, breakConfig, roots, timers, microtasks, channel, now, out>>
    ELSE LET commitStack == IF cfg.onFlush THEN stk ELSE NoStack
             count == state.commitCountInCurrentTask + 1
         IN  IF syncLoopDetected(count)
             THEN LET report == buildLoopReport("sync", count, NoNum, snap, stk)
                      after == handleLoopDetection(r, report)
                  IN  /\ state' = syncFiredState(count)
                      /\ roots' = after.roots
                      /\ timers' = after.timers
                      /\ microtasks' = after.microtasks
                      /\ g' = [Firing(r, report) EXCEPT
                                   !.fed = @ + 1,
                                   !.handled = @ + 1,
                                   !.taskCommits = @ + 1,
                                   !.syncFires = @ + 1,
                                   !.syncTotal = @ + 1,
                                   !.times = @ \o Timed,
                                   !.task = @ \o Handled(r, snap, commitStack, "sync", FALSE,
                                                         after.roots[r])]
                      /\ UNCHANGED <<hook, cfg, breakConfig, channel, now, out>>
             ELSE LET fire == asyncLoopDetected
                      report == buildLoopReport("async", cfg.maxCommitsPerWindow + 1,
                                                windowSpan, snap, stk)
                      after == IF fire THEN handleLoopDetection(r, report)
                               ELSE noLoopDetection
                      st1 == recordInWindow(
                                 [state EXCEPT !.commitCountInCurrentTask = count,
                                               !.lastAsyncLoopFireTime =
                                                   IF fire THEN now ELSE @])
                      step == flushStep(st1, after.roots[r], snap, commitStack, rnd)
                  IN  /\ state' = step.state
                      /\ roots' = after.roots
                      /\ timers' = after.timers
                      /\ microtasks' = after.microtasks
                      /\ channel' = postTaskBoundary(st1)
                      /\ out' = IF step.flush # Nil THEN onFlush(step.flush) ELSE out
                      /\ g' = [(IF fire THEN Firing(r, report) ELSE g) EXCEPT
                                   !.fed = @ + 1,
                                   !.handled = @ + 1,
                                   !.taskCommits = @ + 1,
                                   !.asyncFires = IF fire THEN @ + 1 ELSE @,
                                   !.times = @ \o Timed,
                                   !.recorded = @ \o Timed,
                                   !.slotTask = SlotWritten,
                                   !.task = @ \o Handled(r, snap, commitStack,
                                                         IF fire THEN "async" ELSE "none",
                                                         step.flush # Nil, after.roots[r])]
                      /\ UNCHANGED <<hook, cfg, breakConfig, now>>

(* the detector state at the point where onFlush(report) is called: the   *)
(* report is counted, the updates for the next commit are still to come   *)
flushStepAtCallback(st) ==
    IF cfg.revision = "forward"
    THEN [st EXCEPT !.reportedForCurrentChain = TRUE]
    ELSE [st EXCEPT !.flushReportsThisTask = @ + 1]

(* handleCommit on a commit whose FlushReport goes to a caller-supplied   *)
(* callback that throws: nothing in handleCommit catches, the statements  *)
(* after onFlush(report) do not run and the caller gets the exception     *)
HandleCommitCallbackThrows(r, snap, stk, rnd) ==
    LET count == state.commitCountInCurrentTask + 1
        fire == asyncLoopDetected
        report == buildLoopReport("async", cfg.maxCommitsPerWindow + 1,
                                  windowSpan, snap, stk)
        after == IF fire THEN handleLoopDetection(r, report) ELSE noLoopDetection
        st1 == recordInWindow(
                   [state EXCEPT !.commitCountInCurrentTask = count,
                                 !.lastAsyncLoopFireTime = IF fire THEN now ELSE @])
        step == flushStep(st1, after.roots[r], snap, stk, rnd)
    IN  /\ ~isDisposed
        /\ cfg.onFlush
        /\ ~syncLoopDetected(count)
        /\ step.flush # Nil
        /\ state' = flushStepAtCallback(st1)
        /\ roots' = after.roots
        /\ timers' = after.timers
        /\ microtasks' = after.microtasks
        /\ out' = onFlush(step.flush)
        /\ g' = [(IF fire THEN Firing(r, report) ELSE g) EXCEPT
                     !.fed = @ + 1,
                     !.handled = @ + 1,
                     !.taskCommits = @ + 1,
                     !.asyncFires = IF fire THEN @ + 1 ELSE @,
                     !.thrown = @ + 1,
                     !.task = @ \o Handled(r, snap, stk,
                                           IF fire THEN "async" ELSE "none",
                                           TRUE, after.roots[r])]
        /\ UNCHANGED <<hook, cfg, breakConfig, channel, now>>

(* bug: the boundary leaves the per-task commit counter alone *)
taskBoundaryResetKeepsCount ==
    [state EXCEPT !.commitInCurrentTask = FALSE,
                  !.taskBoundaryPending = FALSE,
                  !.syncLoopFiredThisTask = FALSE,
                  !.flushReportsThisTask = 0,
                  !.lastCommitStack = NoStack]

(* channel.port1.onmessage, src/src/detector.ts *)
taskBoundaryReset ==
    [state EXCEPT !.commitInCurrentTask = FALSE,
                  !.taskBoundaryPending = FALSE,
                  !.commitCountInCurrentTask = 0,
                  !.syncLoopFiredThisTask = FALSE,
                  !.flushReportsThisTask = 0,
                  !.lastCommitStack = NoStack]

(* channel.port1.onmessage, src/unnamed/part_017 *)
taskBoundaryResetChain ==
    [state EXCEPT !.taskBoundaryPending = FALSE,
                  !.commitCountInCurrentTask = 0,
                  !.syncLoopFiredThisTask = FALSE,
                  !.lastCommitStack = NoStack,
                  !.cascadeChainActive = FALSE,
                  !.cascadeOriginSnapshot = Nil,
                  !.cascadeOriginStack = NoStack,
                  !.cascadeOriginTime = 0,
                  !.reportedForCurrentChain = FALSE,
                  !.hadCommitInCurrentTask = FALSE]

(* bug: the message handler does not look at the disposed flag *)
onmessageReturnsNever == FALSE

(* if (state.disposed) return; *)
onmessageReturns == state.disposed

(* delivery of the task-boundary message; a macrotask *)
TaskBoundary ==
    /\ channel.inFlight > 0
    /\ microtasks = <<>>
    /\ channel' = [channel EXCEPT !.inFlight = @ - 1]
    /\ IF onmessageReturns
       THEN /\ state' = state
            /\ g' = [g EXCEPT !.late = @ \cup {"boundary"}]
       ELSE /\ state' = IF cfg.revision = "forward" THEN taskBoundaryResetChain
                        ELSE taskBoundaryReset
            /\ g' = [g EXCEPT !.taskCommits = 0, !.syncFires = 0, !.task = <<>>,
                              !.slotTask = SlotsAtBoundary]
    /\ UNCHANGED <<hook, cfg, breakConfig, roots, timers, microtasks, now, out>>

----------------------------------------------------------------------------
(* Deferred callbacks, dispose, setBreakOnLoop and the host *)

(* bug: the report is delivered before the root is unfrozen *)
reportThenUnfreeze(timer) ==
    [roots |-> [roots EXCEPT ![timer.root] = unfreezeRootLanes(@)],
     out |-> onLoop(timer.report, roots)]

(* bug: the timer delivers the report and leaves the root frozen *)
reportWithoutUnfreeze(timer) ==
    [roots |-> roots, out |-> onLoop(timer.report, roots)]

(* unfreezeRootLanes(root); onLoop?.(report); *)
unfreezeThenReport(timer) ==
    LET unfrozen == [roots EXCEPT ![timer.root] = unfreezeRootLanes(@)]
    IN  [roots |-> unfrozen, out |-> onLoop(timer.report, unfrozen)]

(* the setTimeout(0) callback of a break-mode firing; a macrotask *)
UnfreezeTimer ==
    /\ timers # <<>>
    /\ microtasks = <<>>
    /\ roots' = unfreezeThenReport(Head(timers)).roots
    /\ out' = unfreezeThenReport(Head(timers)).out
    /\ timers' = Tail(timers)
    /\ g' = [g EXCEPT !.frozenBy[Head(timers).root] = "none",
                      !.late = IF state.disposed THEN @ \cup {"timer"} ELSE @]
    /\ UNCHANGED <<hook, cfg, state, breakConfig, microtasks, channel, now>>

(* the queueMicrotask callback of a report-only firing *)
ReportMicrotask ==
    /\ microtasks # <<>>
    /\ out' = onLoop(Head(microtasks), roots)
    /\ microtasks' = Tail(microtasks)
    /\ UNCHANGED <<hook, cfg, state, breakConfig, roots, timers, channel, now, g>>

(* bug: a second call brings the detector back to life *)
disposeToggles(st, ch) ==
    [state |-> [st EXCEPT !.disposed = ~@],
     channel |-> [ch EXCEPT !.closed = ~@]]

(* state.disposed = true; channel.port1.close(); channel.port2.close(); *)
dispose(st, ch) ==
    [state |-> [st EXCEPT !.disposed = TRUE],
     channel |-> [ch EXCEPT !.closed = TRUE]]

Dispose ==
    /\ state' = dispose(state, channel).state
    /\ channel' = dispose(state, channel).channel
    /\ g' = [g EXCEPT !.disposeCalls = @ + 1]
    /\ UNCHANGED <<hook, cfg, breakConfig, roots, timers, microtasks, now, out>>

SetBreakOnLoop(enabled) ==
    /\ breakConfig' = resolveBreakConfig(enabled)
    /\ g' = [g EXCEPT !.requested = namedModes(enabled)]
    /\ UNCHANGED <<hook, cfg, state, roots, timers, microtasks, channel, now, out>>

RootProps == {"pendingLanes", "callbackPriority", "callbackNode"}

RootValues(prop) ==
    IF prop = "callbackNode" THEN {Null, "task"} ELSE {NoLane, SyncLane}

(* the renderer assigns one of the root's scheduling fields *)
RendererWrite(r, prop, v) ==
    /\ roots' = [roots EXCEPT ![r] = WriteRoot(@, prop, v)]
    /\ g' = [g EXCEPT !.lastWrite = [root |-> r, prop |-> prop, during |-> g.frozenBy[r]]]
    /\ UNCHANGED <<hook, cfg, state, breakConfig, timers, microtasks, channel, now, out>>

Tick ==
    /\ now < MaxTime
    /\ now' = now + 1
    /\ UNCHANGED <<hook, cfg, state, breakConfig, roots, timers, microtasks, channel, out, g>>

----------------------------------------------------------------------------
(* Loop detection on its own: one kind of commit, commits split over tasks *)
(* and over time in every way                                              *)
NextLoop ==
    \/ /\ g.fed < LoopCommits
       /\ HandleCommit("rootA", SnapLayout, StackTimer, 0)
    \/ TaskBoundary
    \/ UnfreezeTimer
    \/ ReportMicrotask
    \/ g.disposeCalls < 1 /\ Dispose
    \/ Tick

SpecLoop == InitLoop /\ [][NextLoop]_vars

(* The intervention: commits on either root, the renderer writing the     *)
(* scheduling fields, the mode switched at run time                      *)
NextFreeze ==
    \/ /\ g.fed < FreezeCommits
       /\ \E r \in Roots : HandleCommit(r, SnapLayout, StackTimer, 0)
    \/ TaskBoundary
    \/ UnfreezeTimer
    \/ ReportMicrotask
    \/ \E enabled \in {[b |-> TRUE], [b |-> FALSE], [sync |-> "true", async |-> "false"]} :
           SetBreakOnLoop(enabled)
    \/ \E prop \in RootProps : \E v \in RootValues(prop) : RendererWrite("rootA", prop, v)

SpecFreeze == InitFreeze /\ [][NextFreeze]_vars

(* Flush attribution in either revision: commits of any kind on either   *)
(* root, split over tasks and over time in every way                     *)
Next ==
    \/ /\ g.fed < FlushCommits
       /\ \E r \in Roots : \E snap \in Snapshots : \E stk \in Stacks :
              \E rnd \in RandomDraws : HandleCommit(r, snap, stk, rnd)
    \/ TaskBoundary
    \/ UnfreezeTimer
    \/ now < FlushMaxTime /\ Tick

Spec == Init /\ [][Next]_vars

(* Dispose at any point of a run that reports flushes and freezes roots *)
NextDispose ==
    \/ /\ g.fed < DisposeCommits
       /\ \E r \in Roots : HandleCommit(r, SnapLayout, StackTimer, 0)
    \/ TaskBoundary
    \/ UnfreezeTimer
    \/ g.disposeCalls < MaxDisposeCalls /\ Dispose

SpecDispose == InitDispose /\ [][NextDispose]_vars

(* A caller whose flush callback may throw *)
NextThrow ==
    \/ /\ g.fed < ThrowCommits
       /\ \E r \in Roots : \E snap \in Snapshots :
              HandleCommit(r, snap, StackTimer, 0)
    \/ /\ g.fed < ThrowCommits
       /\ \E r \in Roots : \E snap \in Snapshots :
              HandleCommitCallbackThrows(r, snap, StackTimer, 0)
    \/ TaskBoundary
    \/ UnfreezeTimer

SpecThrow == InitDispose /\ [][NextThrow]_vars

(* two or more cascades in one task, src/unnamed/part_016 255-272: the    *)
(* forward-looking revision reports every sampled commit; rootA is always *)
(* committed with the synchronous-priority bit set, rootB without it      *)
ChainConfigs ==
    [revision : {"forward"}, sampleRate : {100},
     onFlush : {TRUE}, onLoop : {TRUE},
     maxCommitsPerTask : {3, 5}, maxCommitsPerWindow : {5}, windowMs : {WindowMs},
     breakOnLoop : {[b |-> TRUE]}]

InitChain ==
    /\ \E config \in ChainConfigs : createDetector(config)
    /\ InitHost
    /\ roots = [r \in Roots |-> IF r = "rootA" THEN BusyRoot ELSE InitRoot]

NextChain ==
    \/ /\ g.fed < ChainCommits
       /\ \E r \in Roots : \E snap \in Snapshots : \E stk \in Stacks :
              HandleCommit(r, snap, stk, 0)
    \/ TaskBoundary
    \/ UnfreezeTimer

SpecChain == InitChain /\ [][NextChain]_vars

(* a long run of forced commits in one task, src/src/detector.ts: every   *)
(* commit is sampled, the bounded strategy fires late or not at all       *)
CapConfigs ==
    [revision : {"backward"}, sampleRate : {100},
     onFlush : {TRUE}, onLoop : {TRUE},
     maxCommitsPerTask : {5, 8}, maxCommitsPerWindow : {8}, windowMs : {WindowMs},
     breakOnLoop : {[b |-> TRUE]}]

InitCap ==
    /\ \E config \in CapConfigs : createDetector(config)
    /\ InitHost
    /\ roots = [r \in Roots |-> IF r = "rootA" THEN BusyRoot ELSE InitRoot]

NextCap ==
    \/ /\ g.fed < CapCommits
       /\ \E snap \in {SnapLayout, SnapUpdates} : \E stk \in Stacks :
              HandleCommit("rootA", snap, stk, 0)
    \/ TaskBoundary
    \/ UnfreezeTimer

SpecCap == InitCap /\ [][NextCap]_vars

(* setBreakOnLoop with every kind of argument, between firings of both *)
(* strategies                                                          *)
BreakConfigs ==
    [revision : {"backward"}, sampleRate : {100}, onFlush : {FALSE}, onLoop : {TRUE},
     maxCommitsPerTask : {2}, maxCommitsPerWindow : {1}, windowMs : {WindowMs},
     breakOnLoop : {[b |-> TRUE], [b |-> FALSE]}]

InitBreak ==
    /\ \E config \in BreakConfigs : createDetector(config)
    /\ InitHost
    /\ roots = [r \in Roots |-> IF r = "rootA" THEN BusyRoot ELSE InitRoot]

NextBreak ==
    \/ /\ g.fed < BreakCommits
       /\ HandleCommit("rootA", SnapLayout, StackTimer, 0)
    \/ TaskBoundary
    \/ UnfreezeTimer
    \/ ReportMicrotask
    \/ \E enabled \in BreakValues : SetBreakOnLoop(enabled)

SpecBreak == InitBreak /\ [][NextBreak]_vars

(* commits that follow a bounded firing in its task, in both revisions: a *)
(* low threshold, every commit sampled, any root, snapshot and stack      *)
QuietConfigs ==
    [revision : {"backward", "forward"}, sampleRate : {100},
     onFlush : {TRUE}, onLoop : {TRUE},
     maxCommitsPerTask : {1, 2}, maxCommitsPerWindow : {5}, windowMs : {WindowMs},
     breakOnLoop : {[b |-> FALSE]}]

InitQuiet ==
    /\ \E config \in QuietConfigs : createDetector(config)
    /\ InitHost
    /\ roots = [r \in Roots |-> IF r = "rootA" THEN BusyRoot ELSE InitRoot]

NextQuiet ==
    \/ /\ g.fed < QuietCommits
       /\ \E r \in Roots : \E snap \in Snapshots : \E stk \in Stacks :
              HandleCommit(r, snap, stk, 0)
    \/ TaskBoundary
    \/ ReportMicrotask

SpecQuiet == InitQuiet /\ [][NextQuiet]_vars

(* freezes and their deferred unfreezes, with dispose() at any moment: the *)
(* host's event loop drains the microtask queue and runs every zero-delay  *)
(* timer, whence the fairness conditions                                   *)
ThawConfigs ==
    [revision : {"backward"}, sampleRate : {100}, onFlush : {FALSE}, onLoop : {TRUE},
     maxCommitsPerTask : {1, 2}, maxCommitsPerWindow : {1, 3}, windowMs : {WindowMs},
     breakOnLoop : {[b |-> TRUE], [sync |-> "true", async |-> "false"]}]

InitThaw ==
    /\ \E config \in ThawConfigs : createDetector(config)
    /\ InitHost
    /\ roots = [r \in Roots |-> IF r = "rootA" THEN BusyRoot ELSE InitRoot]

NextThaw ==
    \/ /\ g.fed < ThawCommits
       /\ \E r \in Roots : HandleCommit(r, SnapLayout, StackTimer, 0)
    \/ TaskBoundary
    \/ UnfreezeTimer
    \/ ReportMicrotask
    \/ g.disposeCalls < 1 /\ Dispose

SpecThaw ==
    /\ InitThaw /\ [][NextThaw]_vars
    /\ WF_vars(UnfreezeTimer) /\ WF_vars(ReportMicrotask)

(* install() and uninstall() around a detector (src/src/index.ts); the    *)
(* slot may hold another tool's hook before install, and another tool may *)
(* put its own there afterwards                                           *)

(* const existingHook = window.__REACT_DEVTOOLS_GLOBAL_HOOK__; ...        *)
(* window.__REACT_DEVTOOLS_GLOBAL_HOOK__ = { ... }                        *)
install(h) ==
    [slot |-> "observerHook", existingHook |-> h.slot, installed |-> TRUE]

(* bug: uninstall empties the slot *)
uninstallClearsSlot(h) == [h EXCEPT !.slot = Absent]

(* window.__REACT_DEVTOOLS_GLOBAL_HOOK__ = existingHook; *)
uninstall(h) == [h EXCEPT !.slot = h.existingHook]

InitInstall ==
    /\ \E config \in DisposeConfigs : createDetector(config)
    /\ hook \in {NoHook, [NoHook EXCEPT !.slot = "previousHook"]}
    /\ timers = <<>>
    /\ microtasks = <<>>
    /\ now = StartTime
    /\ out = InitOut
    /\ g = InitHistory
    /\ roots = [r \in Roots |-> IF r = "rootA" THEN BusyRoot ELSE InitRoot]

(* install(config): the detector is the one created at the start of the run *)
Install ==
    /\ ~hook.installed
    /\ hook' = install(hook)
    /\ g' = [g EXCEPT !.held = hook.slot]
    /\ UNCHANGED <<cfg, state, breakConfig, roots, timers, microtasks, channel, now, out>>

(* the function returned by install(): detector.dispose(), then the slot *)
(* gets existingHook back                                                *)
Uninstall ==
    /\ hook.installed
    /\ state' = dispose(state, channel).state
    /\ channel' = dispose(state, channel).channel
    /\ hook' = uninstall(hook)
    /\ g' = [g EXCEPT !.disposeCalls = @ + 1]
    /\ UNCHANGED <<cfg, breakConfig, roots, timers, microtasks, now, out>>

(* another tool assigns its own hook to the slot *)
ForeignInstall ==
    /\ hook.slot # "laterHook"
    /\ hook' = [hook EXCEPT !.slot = "laterHook"]
    /\ UNCHANGED <<cfg, state, breakConfig, roots, timers, microtasks, channel, now, out, g>>

(* the renderer commits and calls onCommitFiberRoot on the hook it uses:  *)
(* the one in the slot, or the observer's one that it retained when it    *)
(* was injected; the observer's hook calls detector.handleCommit(root)    *)
OnCommitFiberRoot(r, snap, retained) ==
    IF hook.installed /\ (retained \/ hook.slot = "observerHook")
    THEN HandleCommit(r, snap, StackTimer, 0)
    ELSE /\ g' = [g EXCEPT !.fed = @ + 1]
         /\ UNCHANGED <<hook, cfg, state, breakConfig, roots, timers, microtasks,
                        channel, now, out>>

NextInstall ==
    \/ Install
    \/ g.disposeCalls < MaxDisposeCalls /\ Uninstall
    \/ ForeignInstall
    \/ /\ g.fed < InstallCommits
       /\ \E r \in Roots : \E retained \in BOOLEAN :
              OnCommitFiberRoot(r, SnapLayout, retained)
    \/ TaskBoundary
    \/ UnfreezeTimer

SpecInstall == InitInstall /\ [][NextInstall]_vars

(* The classifier on its own: every snapshot of up to MaxFibers fibers per *)
(* list, given to either revision of classifyPattern                      *)
ListsOver(fibers) == UNION {[1..n -> fibers] : n \in 0..MaxFibers}

ClassifierInputs ==
    [withPassiveEffects : {<<>>},
     withLayoutEffects : ListsOver({FiberL, FiberStale}),
     withSuspense : ListsOver({FiberLazy}),
     withUpdates : ListsOver({FiberA})]

InitClassify ==
    /\ \E config \in DisposeConfigs : createDetector(config)
    /\ hook = NoHook
    /\ timers = <<>>
    /\ microtasks = <<>>
    /\ now = StartTime
    /\ out = InitOut
    /\ roots = [r \in Roots |-> InitRoot]
    /\ \E snapshot \in ClassifierInputs :
           \E classifier \in {"src/classifier.ts", "part_018"} :
               g = [classifier |-> classifier, snapshot |-> snapshot, result |-> Nil]

Classify ==
    /\ g.result = Nil
    /\ g' = [g EXCEPT !.result = IF g.classifier = "part_018"
                                  THEN classifyPatternWithUpdates(g.snapshot)
                                  ELSE classifyPattern(g.snapshot)]
    /\ UNCHANGED <<hook, cfg, state, breakConfig, roots, timers, microtasks, channel, now, out>>

NextClassify == Classify

SpecClassify == InitClassify /\ [][NextClassify]_vars

----------------------------------------------------------------------------
(* Properties *)

(* C1: n commits in one task fire the bounded strategy zero times while    *)
(* n <= maxCommitsPerTask and exactly once when n > maxCommitsPerTask; the *)
(* firing happens on commit maxCommitsPerTask + 1 of the task and its      *)
(* report carries commitCount = maxCommitsPerTask + 1.                     *)
C1_BoundedFiresOncePastThreshold ==
    /\ g.syncFires = (IF g.taskCommits > cfg.maxCommitsPerTask THEN 1 ELSE 0)
    /\ g.syncFires = 1 =>
          /\ g.lastLoop.report.pattern = "sync"
          /\ g.lastLoop.report.commitCount = cfg.maxCommitsPerTask + 1
          /\ g.lastLoop.atTaskCommit = cfg.maxCommitsPerTask + 1

C1_Witness ==
    /\ g.taskCommits >= cfg.maxCommitsPerTask + 2
    /\ g.syncFires = 1
    /\ g.lastLoop.report.commitCount = cfg.maxCommitsPerTask + 1

(* C3: on a fresh detector, as long as all commits so far lie within       *)
(* windowMs of each other and the bounded strategy has not fired, the      *)
(* unbounded strategy has fired exactly once if more than                  *)
(* maxCommitsPerWindow commits were fed and not at all otherwise; it fired *)
(* on commit maxCommitsPerWindow + 1 with that commitCount and with the    *)
(* span from the first commit as window duration.                          *)
C3_UnboundedFiresOnceOnBurst ==
    LET n == Len(g.times)
        W == cfg.maxCommitsPerWindow
    IN  (n >= 1 /\ g.syncTotal = 0 /\ g.times[n] - g.times[1] < cfg.windowMs) =>
           /\ g.asyncFires = (IF n > W THEN 1 ELSE 0)
           /\ g.asyncFires = 1 =>
                 /\ g.lastLoop.report.pattern = "async"
                 /\ g.lastLoop.report.commitCount = W + 1
                 /\ g.lastLoop.atCommit = W + 1
                 /\ g.lastLoop.report.windowMs = g.times[W + 1] - g.times[1]

(* a burst split by a task boundary, with a span above zero, has fired *)
C3_Witness ==
    LET n == Len(g.times)
    IN  /\ n = cfg.maxCommitsPerWindow + 1
        /\ g.syncTotal = 0
        /\ g.times[n] - g.times[1] < cfg.windowMs
        /\ g.taskCommits >= 1 /\ g.taskCommits < n
        /\ g.asyncFires = 1
        /\ g.lastLoop.report.windowMs > 0

(* every run of maxCommitsPerWindow + 1 consecutive commits spans at least windowMs *)
NoBurst ==
    LET n == Len(g.times)
        W == cfg.maxCommitsPerWindow
    IN  \A i \in 1..(n - W) : g.times[i + W] - g.times[i] >= cfg.windowMs

(* C4: if every run of maxCommitsPerWindow + 1 consecutive commits has a   *)
(* span that is not under windowMs, the unbounded strategy never fires.    *)
C4_NoFireBeyondWindow ==
    NoBurst => g.asyncFires = 0

(* a full buffer whose span is exactly windowMs was checked and did not fire *)
C4_Witness ==
    LET n == Len(g.times)
        W == cfg.maxCommitsPerWindow
    IN  /\ n >= W + 2
        /\ NoBurst
        /\ g.syncTotal = 0
        /\ \E i \in 1..(n - W) : g.times[i + W] - g.times[i] = cfg.windowMs
        /\ g.asyncFires = 0

UnfreezeRuns == timers # <<>> /\ timers' = Tail(timers)

WritesAreObservable ==
    \A prop \in RootProps : \A v \in RootValues(prop) :
        (RendererWrite("rootA", prop, v) /\ ~roots["rootA"].frozen)
            => ReadRoot(roots'["rootA"], prop) = v

BoundaryDelivered == channel'.inFlight < channel.inFlight /\ ~state.disposed

(* a step in which handleCommit is called *)
CommitCalled == g'.fed = g.fed + 1

(* C2: a delivered task-boundary signal resets the per-task commit         *)
(* counter, the bounded fired-flag and the chain state; the bounded        *)
(* strategy fires only on a commit that has more than maxCommitsPerTask    *)
(* commits since the last signal, so pieces of at most maxCommitsPerTask   *)
(* never fire it; the first commit after a signal emits no FlushReport.    *)
C2_BoundaryResetsTask ==
    [][/\ BoundaryDelivered =>
             /\ state'.commitCountInCurrentTask = 0
             /\ ~state'.syncLoopFiredThisTask
             /\ IF cfg.revision = "forward"
                THEN /\ ~state'.cascadeChainActive
                     /\ state'.cascadeOriginSnapshot = Nil
                     /\ ~state'.reportedForCurrentChain
                     /\ ~state'.hadCommitInCurrentTask
                ELSE ~state'.commitInCurrentTask
       /\ g'.syncTotal > g.syncTotal => g.taskCommits + 1 > cfg.maxCommitsPerTask
       /\ (CommitCalled /\ g.taskCommits = 0) => out'.flushCount = out.flushCount]_vars

(* three commits with maxCommitsPerTask = 2, split two and one by a        *)
(* boundary: the pair was reported as a forced flush, nothing fired, and   *)
(* the commit after the boundary was not reported                          *)
C2_Witness ==
    /\ cfg.maxCommitsPerTask = 2
    /\ cfg.sampleRate = 100
    /\ g.handled = 3
    /\ Len(g.task) = 1
    /\ ~g.task[1].flushed
    /\ g.syncTotal = 0
    /\ out.flushCount = 1
    /\ state.commitCountInCurrentTask = 1

(* the commits of the current task that emitted a FlushReport *)
FlushedInTask == {i \in 1..Len(g.task) : g.task[i].flushed}

(* the current task is so far a chain: every commit but the last read the  *)
(* synchronous-priority bit set when it was committed                      *)
ChainSoFar ==
    /\ Len(g.task) >= 2
    /\ \A i \in 1..(Len(g.task) - 1) : g.task[i].bit

ChainIsReportable ==
    \/ classifyPattern(g.task[1].snap).pattern # "setState-outside-react"
    \/ hasFlushSyncInStack(g.task[1].stk)
    \/ hasFlushSyncInStack(g.task[2].stk)

ChainOrigin ==
    LET n == Len(g.task)
    IN  CHOOSE j \in 1..n :
            /\ \A i \in j..n : g.task[i].cascade
            /\ j = 1 \/ ~g.task[j - 1].cascade

(* C10: a FlushReport emitted for an active forward-predicted chain has    *)
(* pattern, evidence, suspects, effect count and source computed from the  *)
(* snapshot of the chain's first commit, whatever snapshot the reporting   *)
(* commit has, and blocking duration equal to the reporting commit's time  *)
(* minus the first commit's time.                                          *)
C10_ChainReportFromOrigin ==
    [][(/\ cfg.revision = "forward"
        /\ state.cascadeChainActive
        /\ out'.flushCount = out.flushCount + 1)
          => LET origin == g.task[ChainOrigin]
                 classification == classifyPattern(origin.snap)
                 outside == classification.pattern = "setState-outside-react"
                 report == out'.lastFlush
             IN  /\ report.pattern = IF outside THEN "flushSync"
                                     ELSE classification.pattern
                 /\ report.evidence = IF outside
                                      THEN "flushSync caused synchronous re-render"
                                      ELSE classification.evidence
                 /\ report.suspects = classification.suspects
                 /\ report.flushedEffectsCount = Len(origin.snap.withLayoutEffects)
                 /\ report.setStateLocation = LayoutSource(origin.snap)
                 /\ report.blockingDurationMs = now - origin.time]_vars

(* a chain that starts with a layout-effect commit is reported a           *)
(* millisecond later by a suspense commit: the report is the layout one    *)
C10_Witness ==
    /\ cfg.revision = "forward"
    /\ Len(g.task) = 2
    /\ g.task[1].cascade
    /\ g.task[1].snap = SnapLayout /\ g.task[2].snap = SnapSuspense
    /\ g.task[2].flushed
    /\ out.lastFlush.pattern = "setState-in-layout-effect"
    /\ out.lastFlush.flushedEffectsCount = 2
    /\ out.lastFlush.setStateLocation = "L.jsx:2"
    /\ out.lastFlush.blockingDurationMs = 1

(* C7: once dispose() has been called, a handleCommit call on any root     *)
(* emits no FlushReport and no LoopReport, freezes no root, schedules no   *)
(* callback, posts no task-boundary message and leaves every field of the  *)
(* detector state as it was.                                               *)
C7_DisposedIgnoresCommits ==
    [][(state.disposed /\ CommitCalled)
          => UNCHANGED <<state, breakConfig, roots, timers, microtasks, channel, out>>]_vars

(* two commits were fed after dispose, which came after a flush had been *)
(* reported and while a root was frozen                                  *)
C7_Witness ==
    /\ state.disposed
    /\ g.fed >= g.handled + 2
    /\ out.flushCount >= 1
    /\ \E r \in Roots : roots[r].frozen

(* C11: any two unbounded firings of one detector happen on commits whose  *)
(* timestamps differ by more than windowMs, however many commits arrive in *)
(* between.                                                                *)
C11_UnboundedFiringsApart ==
    \A i \in 1..Len(g.asyncAt) : \A j \in 1..Len(g.asyncAt) :
        i < j => g.asyncAt[j] - g.asyncAt[i] > cfg.windowMs

(* two unbounded firings, with commits that did not fire in between *)
C11_Witness ==
    /\ Len(g.asyncAt) = 2
    /\ g.asyncFires = 2
    /\ g.handled >= 4
    /\ g.syncTotal = 0

(* C12: in a task in which the bounded strategy has fired, the unbounded   *)
(* strategy fires neither on the firing commit nor on any later commit of  *)
(* that task.                                                              *)
C12_NoUnboundedAfterBounded ==
    [][g'.asyncFires # g.asyncFires => (g.syncFires = 0 /\ g'.syncFires = 0)]_vars

(* after the bounded firing the task went on: its last commit found the    *)
(* ring buffer filled, its span under windowMs and the cooldown over, and  *)
(* the unbounded strategy stayed silent                                    *)
C12_Witness ==
    LET n == Len(g.times)
    IN  /\ cfg.maxCommitsPerWindow = 1
        /\ g.syncFires = 1
        /\ g.asyncFires = 0
        /\ g.lastLoop.report.pattern = "sync"
        /\ g.lastLoop.atCommit <= n - 2
        /\ g.taskCommits = n
        /\ g.times[n] - g.times[n - 1] < cfg.windowMs
        /\ g.times[n] - g.lastLoop.report.timestamp > cfg.windowMs
        /\ state.windowFilled

(* a step in which a loop strategy fires, and the mode in force for it *)
LoopFires == g'.syncTotal # g.syncTotal \/ g'.asyncFires # g.asyncFires

FiresInBreakMode ==
    \/ g'.syncTotal # g.syncTotal /\ breakConfig.sync
    \/ g'.asyncFires # g.asyncFires /\ breakConfig.async

(* C13: in break mode the LoopReport is not delivered during handleCommit  *)
(* and not in a microtask: the firing schedules one deferred macrotask and *)
(* no microtask; that macrotask delivers the report once and the           *)
(* callback finds the root's overrides already removed; a deferred         *)
(* macrotask leaves the queue only by running.                             *)
C13_BreakModeDeliversInTimer ==
    [][/\ CommitCalled => out' = out
       /\ (LoopFires /\ FiresInBreakMode) =>
             /\ microtasks' = microtasks
             /\ Len(timers') = Len(timers) + 1
             /\ timers'[Len(timers')].report = g'.lastLoop.report
             /\ roots'[timers'[Len(timers')].root].frozen
       /\ Len(timers') < Len(timers) =>
             /\ timers' = Tail(timers)
             /\ out'.loopCount = out.loopCount + 1
             /\ out'.lastLoop = Head(timers).report
             /\ Head(timers).root \notin out'.frozenSeen
             /\ ~roots'[Head(timers).root].frozen]_vars

(* an unbounded firing froze rootA, and its report was delivered later by *)
(* the deferred macrotask while the other root was still frozen           *)
C13_Witness ==
    /\ out.loopCount = 1
    /\ out.lastLoop.pattern = "async"
    /\ out.frozenSeen = {"rootB"}
    /\ ~roots["rootA"].frozen
    /\ g.captured["rootA"] # Nil
    /\ Len(timers) = 1

(* C14: in report-only mode a firing installs no override and schedules no *)
(* macrotask: the roots are left as they were and the report is queued as  *)
(* a microtask; the microtask delivers it once, leaving the roots alone;   *)
(* no task-boundary signal and no timer callback runs while a report is    *)
(* still queued as a microtask.                                            *)
C14_ReportOnlyDeliversInMicrotask ==
    [][/\ (LoopFires /\ ~FiresInBreakMode) =>
             /\ roots' = roots
             /\ timers' = timers
             /\ out' = out
             /\ microtasks' = Append(microtasks, g'.lastLoop.report)
       /\ Len(microtasks') < Len(microtasks) =>
             /\ microtasks' = Tail(microtasks)
             /\ out'.loopCount = out.loopCount + 1
             /\ out'.lastLoop = Head(microtasks)
             /\ roots' = roots
       /\ (channel'.inFlight < channel.inFlight \/ Len(timers') < Len(timers)) =>
             microtasks = <<>>]_vars

(* a report-only firing on rootA, never frozen: its report was delivered   *)
(* by the microtask, the renderer's write of pendingLanes is read back     *)
C14_Witness ==
    /\ out.loopCount = 1
    /\ g.lastLoop.report = out.lastLoop
    /\ g.captured["rootA"] = Nil
    /\ ~roots["rootA"].frozen
    /\ out.frozenSeen = {}
    /\ timers = <<>> /\ microtasks = <<>>
    /\ g.lastWrite = [root |-> "rootA", prop |-> "pendingLanes", during |-> "none"]
    /\ ReadPendingLanes(roots["rootA"]) = NoLane
    /\ roots["rootA"].callbackNode = "task"

(* what each frozen root's scheduling properties read, given the value    *)
(* that callbackPriority is to read                                       *)
FrozenReads(priority) ==
    \A r \in Roots :
        roots[r].frozen =>
            /\ ReadPendingLanes(roots[r]) = NoLane
            /\ ReadCallbackPriority(roots[r]) = priority
            /\ ReadCallbackNode(roots[r]) = Null

FrozenWritesDiscarded ==
    \A prop \in RootProps : \A v \in RootValues(prop) :
        (RendererWrite("rootA", prop, v) /\ roots["rootA"].frozen)
            => /\ roots' = roots
               /\ ReadRoot(roots'["rootA"], prop) = ReadRoot(roots["rootA"], prop)

(* C15 as stated: while a root is frozen its pendingLanes reads 0, its     *)
(* callbackPriority reads 0 and its callbackNode reads null, and a write   *)
(* to any of the three is discarded.                                       *)
C15_FrozenReadsNeutral ==
    [][FrozenReads(NoLane) /\ FrozenWritesDiscarded]_vars

(* C15 amended: while a root is frozen its pendingLanes reads 0, its       *)
(* callbackPriority reads SyncLane (not the 0 that unfreeze resets it to)  *)
(* and its callbackNode reads null, and a write to any of the three is     *)
(* discarded.                                                              *)
C15_FrozenReadsFixedValues ==
    [][FrozenReads(SyncLane) /\ FrozenWritesDiscarded]_vars

(* rootA was frozen when its callbackPriority was 0 and it had a callback  *)
(* scheduled; the renderer then assigned callbackPriority, which still     *)
(* reads SyncLane                                                          *)
C15_Witness ==
    /\ roots["rootA"].frozen
    /\ g.captured["rootA"].callbackPriority = NoLane
    /\ g.captured["rootA"].callbackNode = "task"
    /\ g.lastWrite # Nil
    /\ g.lastWrite.root = "rootA"
    /\ g.lastWrite.prop = "callbackPriority"
    /\ g.lastWrite.during # "none"
    /\ ReadCallbackPriority(roots["rootA"]) = SyncLane
    /\ ReadCallbackNode(roots["rootA"]) = Null

(* C16: whenever a deferred unfreeze runs on a root, the callbackNode it   *)
(* leaves on the root is the one the renderer had stored before the root   *)
(* became frozen (null if the renderer had stored none), in every          *)
(* interleaving of firings and unfreezes on that root.                     *)
C16_UnfreezeRestoresStoredNode ==
    [][UnfreezeRuns =>
          LET r == Head(timers).root
          IN  roots'[r].callbackNode =
                  IF g.stored[r].callbackNode = Absent THEN Null
                  ELSE g.stored[r].callbackNode]_vars

(* a step in which dispose() is called *)
DisposeCalled == g'.disposeCalls = g.disposeCalls + 1

(* C17: a second or later call of dispose() leaves the detector state, the *)
(* task-boundary channel and every root exactly as the first call left     *)
(* them, and so do the queued callbacks and the callbacks' record.         *)
C17_DisposeIdempotent ==
    [][(DisposeCalled /\ g.disposeCalls >= 1)
          => /\ state'.disposed /\ channel'.closed
             /\ UNCHANGED <<state, breakConfig, channel, roots, timers,
                            microtasks, out>>]_vars

(* dispose() was called three times, with a root frozen, its unfreeze and *)
(* a task-boundary message still pending                                  *)
C17_Witness ==
    /\ g.disposeCalls = MaxDisposeCalls
    /\ timers # <<>>
    /\ channel.inFlight > 0
    /\ \E r \in Roots : roots[r].frozen

(* a step that runs a deferred unfreeze callback or delivers a             *)
(* task-boundary message                                                   *)
PendingCallbackRuns == UnfreezeRuns \/ channel'.inFlight < channel.inFlight

(* C18: a deferred unfreeze callback or a task-boundary message that runs  *)
(* after dispose() leaves every field of the detector state as it was.     *)
C18_LateCallbacksLeaveState ==
    [][(state.disposed /\ PendingCallbackRuns)
          => (state' = state /\ breakConfig' = breakConfig)]_vars

(* both kinds of callback ran after dispose(), the boundary message while *)
(* the task had commits counted                                           *)
C18_Witness ==
    /\ g.late = {"boundary", "timer"}
    /\ state.commitCountInCurrentTask > 0
    /\ state.taskBoundaryPending

(* a commit is handled as the second of a same-task pair: a flush callback *)
(* is supplied, every commit is sampled, the bounded strategy has not      *)
(* fired in the task and no forward-predicted chain is active              *)
SameTaskPairHandled ==
    /\ cfg.onFlush /\ cfg.sampleRate = 100
    /\ Len(g.task) >= 1
    /\ Len(g'.task) = Len(g.task) + 1
    /\ \A i \in 1..Len(g'.task) : g'.task[i].loop # "sync"
    /\ ~state.cascadeChainActive

SameTaskFlag ==
    IF cfg.revision = "forward" THEN state.hadCommitInCurrentTask
    ELSE state.commitInCurrentTask

(* C20: a commit is treated as same-task as the previous one exactly when   *)
(* no task-boundary signal was delivered since the previous commit,         *)
(* whatever the two timestamps are: the first commit after a boundary       *)
(* reports no flush even at the previous commit's time, and the commit      *)
(* that follows it without a boundary reports the flush of a layout or      *)
(* suspense commit however much later it comes (callback supplied,          *)
(* sampleRate 1, bounded strategy not fired).                               *)
C20_SameTaskByBoundaryOnly ==
    [][(/\ cfg.onFlush /\ cfg.sampleRate = 100
        /\ Len(g'.task) = Len(g.task) + 1
        /\ \A i \in 1..Len(g'.task) : g'.task[i].loop # "sync")
          => /\ SameTaskFlag = (g.taskCommits > 0)
             /\ SameTaskFlag'
             /\ g.taskCommits = 0 => out' = out
             /\ (/\ g.taskCommits = 1
                 /\ classifyPattern(g.task[1].snap).pattern # "setState-outside-react")
                   => /\ out'.flushCount = out.flushCount + 1
                      /\ out'.lastFlush.blockingDurationMs = now - g.task[1].time]_vars

(* two commits at the same time with a boundary between them reported    *)
(* nothing; the third, one millisecond after the second, a layout commit, *)
(* and with no boundary between them, reported the flush                  *)
C20_Witness ==
    /\ cfg.sampleRate = 100
    /\ g.fed = 3
    /\ Len(g.task) = 2
    /\ g.task[1].snap = SnapLayout
    /\ state.lastCommitTime = StartTime + 1
    /\ g.task[1].time = StartTime
    /\ g.task[2].time = StartTime + 1
    /\ FlushedInTask = {2}
    /\ out.flushCount = 1
    /\ out.lastFlush.blockingDurationMs = 1

(* C21: a delivered task-boundary signal clears the chain state, the       *)
(* last-commit stack, the last-commit snapshot and the per-task            *)
(* flush-report count, and no report built for the first commit after the  *)
(* signal carries a snapshot captured before it.                           *)
C21_BoundaryClearsLastCommit ==
    [][/\ BoundaryDelivered
           => /\ state'.lastCommitSnapshot = Nil
              /\ state'.lastCommitStack = NoStack
              /\ state'.flushReportsThisTask = 0
              /\ ~state'.cascadeChainActive
              /\ state'.cascadeOriginSnapshot = Nil
       /\ (LoopFires /\ g.taskCommits = 0)
           => g'.lastLoop.report.triggeringCommit = Nil]_vars

(* C22: handleCommit never propagates an exception to its caller, for any   *)
(* root, configuration and detector state, including commits whose report  *)
(* is delivered to a caller-supplied callback.                              *)
C22_HandleCommitNeverThrows == g.thrown = 0

(* the root's callbackPriority and callbackNode properties are absent *)
LacksSchedulingProps(root) ==
    ~root.frozen /\ root.callbackPriority = NoNum /\ root.callbackNode = Absent

(* C23: a break-mode firing on a root that has no callbackPriority and no   *)
(* callbackNode installs all three overrides (the root then reads 0,        *)
(* SyncLane and null) without an exception, and the later unfreeze of that  *)
(* root leaves it with 0, 0 and null, without an exception either.          *)
C23_FreezeWithoutSchedulingProps ==
    [][\A r \in Roots :
          /\ (/\ LacksSchedulingProps(roots[r])
              /\ LoopFires /\ FiresInBreakMode
              /\ g'.lastLoop # g.lastLoop
              /\ timers'[Len(timers')].root = r)
                => /\ roots'[r].frozen
                   /\ ReadPendingLanes(roots'[r]) = NoLane
                   /\ ReadCallbackPriority(roots'[r]) = SyncLane
                   /\ ReadCallbackNode(roots'[r]) = Null
                   /\ g'.thrown = g.thrown
          /\ (/\ UnfreezeRuns
              /\ Head(timers).root = r
              /\ g.stored[r] # Nil
              /\ g.stored[r].callbackNode = Absent)
                => /\ roots'[r] = InitRoot
                   /\ g'.thrown = g.thrown]_vars

(* the root without callbackPriority and callbackNode was frozen and has *)
(* been unfrozen again                                                   *)
C23_Witness ==
    /\ g.stored["rootB"] # Nil
    /\ g.stored["rootB"].callbackPriority = NoNum
    /\ g.stored["rootB"].callbackNode = Absent
    /\ g.frozenBy["rootB"] = "none"
    /\ roots["rootB"] = InitRoot

(* a step in which the given strategy fires *)
StrategyFires(strategy) ==
    IF strategy = "sync" THEN g'.syncTotal # g.syncTotal
    ELSE g'.asyncFires # g.asyncFires

(* C24: a firing is handled in the mode that the configuration or the most *)
(* recent setBreakOnLoop call named for the firing's own strategy: in      *)
(* break mode the root is frozen and its unfreeze scheduled, in            *)
(* report-only mode no root is touched; with {sync: true, async: false} a  *)
(* bounded firing freezes and an unbounded one does not.                   *)
C24_ModeOfOwnStrategy ==
    [][\A strategy \in {"sync", "async"} :
          (StrategyFires(strategy) /\ g.requested[strategy] # Absent)
              => IF g.requested[strategy] = "true"
                 THEN /\ Len(timers') = Len(timers) + 1
                      /\ roots'[timers'[Len(timers')].root].frozen
                      /\ microtasks' = microtasks
                 ELSE /\ roots' = roots
                      /\ timers' = timers
                      /\ microtasks' = Append(microtasks, g'.lastLoop.report)]_vars

(* after setBreakOnLoop({sync: true, async: false}) an unbounded firing on *)
(* rootA was only reported and a bounded firing on rootB froze it          *)
C24_Witness ==
    /\ g.requested = [sync |-> "true", async |-> "false"]
    /\ g.asyncFires >= 1
    /\ g.syncTotal >= 1
    /\ g.lastLoop.report.pattern = "sync"
    /\ roots["rootB"].frozen
    /\ ~roots["rootA"].frozen
    /\ microtasks # <<>>

(* C25: a snapshot with a suspense boundary classifies as lazy-in-render   *)
(* whatever its other lists hold; otherwise one with a layout effect       *)
(* classifies as setState-in-layout-effect whatever its update list holds; *)
(* otherwise the pattern is setState-outside-react.                        *)
C25_ClassifierPriority ==
    g.result # Nil =>
        g.result.pattern =
            IF g.snapshot.withSuspense # <<>> THEN "lazy-in-render"
            ELSE IF g.snapshot.withLayoutEffects # <<>>
                 THEN "setState-in-layout-effect"
                 ELSE "setState-outside-react"

(* a snapshot with all three lists filled was classified by its suspense *)
(* boundary                                                              *)
C25_Witness ==
    /\ g.result # Nil
    /\ g.classifier = "src/classifier.ts"
    /\ g.snapshot.withSuspense = <<FiberLazy>>
    /\ g.snapshot.withLayoutEffects = <<FiberStale, FiberL>>
    /\ g.snapshot.withUpdates = <<FiberA>>
    /\ g.result.pattern = "lazy-in-render"
    /\ g.result.suspects = <<FiberLazy>>

(* C26: when the classifier returns setState-outside-react, the suspects  *)
(* it returns are the snapshot's update-pending list.                      *)
C26_FallbackSuspectsAreUpdates ==
    (g.result # Nil /\ g.result.pattern = "setState-outside-react")
        => g.result.suspects = g.snapshot.withUpdates

(* C27: uninstall leaves the hook slot holding what it held when install    *)
(* was called (the previous hook object, or nothing) and disposes the       *)
(* detector; a commit after uninstall produces no report, schedules none    *)
(* and touches no root.                                                     *)
C27_UninstallRestoresHook ==
    [][/\ DisposeCalled => (hook'.slot = g.held /\ state'.disposed)
       /\ (g.disposeCalls >= 1 /\ CommitCalled)
             => UNCHANGED <<state, roots, timers, microtasks, channel, out>>]_vars

(* installed over another tool's hook, reported a flush, uninstalled: the *)
(* slot holds the other tool's hook again, and a commit that still came   *)
(* through the observer's hook was ignored                                *)
C27_Witness ==
    /\ g.held = "previousHook"
    /\ hook.slot = "previousHook"
    /\ g.disposeCalls = 1
    /\ state.disposed
    /\ out.flushCount >= 1
    /\ g.fed = g.handled + 1
    /\ g.handled >= 2

(* C28: no unbounded firing measures its window from a commit of a task in *)
(* which the bounded strategy fired, neither in that task nor in a later   *)
(* one.                                                                    *)
C28_NoUnboundedFromFiredTask ==
    [][g'.asyncFires # g.asyncFires
          => g.slotTask[state.windowWritePos] # "fired"]_vars

(* the commit at hand is handled by a detector that is not disposed *)
CommitHandled == g'.handled = g.handled + 1

(* the commit at hand is written at the cursor and the cursor moves on *)
CommitRecorded ==
    /\ state'.windowTimestamps[state.windowWritePos] = now
    /\ state'.windowWritePos = (state.windowWritePos + 1) % cfg.maxCommitsPerWindow

(* the bounded strategy fires on the commit at hand *)
BoundedFires == g'.syncTotal # g.syncTotal

(* C29 as stated: every commit handled by a detector that is not disposed *)
(* writes its timestamp at the cursor and advances the cursor by one      *)
(* modulo the capacity.                                                   *)
C29_EveryCommitRecorded ==
    [][CommitHandled => CommitRecorded]_vars

(* C29: every handled commit on which the bounded strategy does not fire  *)
(* writes its timestamp at the cursor and advances the cursor by one      *)
(* modulo the capacity, whether the unbounded strategy fires on it, does  *)
(* not fire or is skipped; the commit on which the bounded strategy fires *)
(* is not written, and leaves the cursor at slot 0 of an unfilled buffer. *)
C29_CommitRecordedUnlessBoundedFires ==
    [][/\ (CommitHandled /\ ~BoundedFires) => CommitRecorded
       /\ (CommitHandled /\ BoundedFires)
             => /\ state'.windowTimestamps = state.windowTimestamps
                /\ state'.windowWritePos = 0
                /\ ~state'.windowFilled]_vars

(* a commit was recorded while the unbounded check was skipped, after the *)
(* unbounded strategy had fired earlier in the run                        *)
C29_Witness ==
    /\ cfg.maxCommitsPerWindow = 2
    /\ g.asyncFires >= 1
    /\ state.syncLoopFiredThisTask
    /\ g.taskCommits > cfg.maxCommitsPerTask + 1
    /\ state.windowWritePos = 1
    /\ state.windowTimestamps[0] = now

(* commit i of the current task arrived while a chain was active: the     *)
(* commit before it left the synchronous-priority bit set                  *)
InChain(i) == i > 1 /\ g.task[i - 1].cascade

(* the first commit of the chain that was active when commit i arrived *)
ChainOriginBefore(i) ==
    CHOOSE j \in 1..(i - 1) :
        /\ \A x \in j..(i - 1) : g.task[x].cascade
        /\ j = 1 \/ ~g.task[j - 1].cascade

(* the commits of the current task that reported the chain starting at j *)
ReportsOfChain(j) ==
    {i \in FlushedInTask : InChain(i) /\ ChainOriginBefore(i) = j}

(* commit j starts a chain after an earlier chain of the task was closed *)
StartsLaterChain(j) ==
    /\ j > 2 /\ j < Len(g.task)
    /\ g.task[j].cascade /\ ~g.task[j - 1].cascade
    /\ \E x \in 1..(j - 2) : g.task[x].cascade
    /\ \A x \in 1..Len(g.task) : g.task[x].loop = "none"

(* the chain starting at j has something to report at its second commit *)
ChainReportable(j) ==
    \/ classifyPattern(g.task[j].snap).pattern # "setState-outside-react"
    \/ hasFlushSyncInStack(g.task[j].stk)
    \/ hasFlushSyncInStack(g.task[j + 1].stk)

BurstFillsWindow ==
    /\ Len(g.times) >= cfg.maxCommitsPerWindow
    /\ now - g.times[Len(g.times) - cfg.maxCommitsPerWindow + 1] < cfg.windowMs

(* C31: the spam guard of the unbounded strategy is not permanent: a      *)
(* commit that arrives more than windowMs after the last unbounded firing *)
(* and closes a burst spanning less than windowMs fires the unbounded     *)
(* strategy again (runs in which the bounded strategy does not fire).     *)
C31_UnboundedFiresAgainAfterCooldown ==
    [][(/\ CommitHandled
        /\ g'.syncTotal = 0
        /\ g.asyncAt # <<>>
        /\ now - g.asyncAt[Len(g.asyncAt)] > cfg.windowMs
        /\ BurstFillsWindow)
          => /\ g'.asyncFires = g.asyncFires + 1
             /\ g'.lastLoop.report.pattern = "async"
             /\ Len(timers') + Len(microtasks') = Len(timers) + Len(microtasks) + 1]_vars

(* the unbounded strategy fired twice, the second time more than windowMs *)
(* after the first, on a fresh burst of two commits in a buffer of one    *)
(* slot                                                                   *)
C31_Witness ==
    /\ cfg.maxCommitsPerWindow = 1
    /\ Len(g.times) = 4
    /\ g.times[3] = now
    /\ g.syncTotal = 0
    /\ Len(g.asyncAt) = 2
    /\ g.asyncAt[2] - g.asyncAt[1] > cfg.windowMs
    /\ g.asyncAt[2] = now
    /\ g.times[Len(g.times)] = now

(* C32: between two consecutive task-boundary signals at most 3           *)
(* FlushReports are emitted, however many forced commits occur, and the   *)
(* count restarts from zero at each task-boundary signal (src/src/        *)
(* detector.ts).                                                          *)
C32_AtMostThreeFlushReportsPerTask ==
    [][/\ Cardinality(FlushedInTask) <= MAX_FLUSH_REPORTS_PER_TASK
       /\ state.flushReportsThisTask = Cardinality(FlushedInTask)
       /\ BoundaryDelivered => state'.flushReportsThisTask = 0]_vars

(* a task of two commits reported once; after the boundary a task of five *)
(* forced layout commits reported three more times and then stopped       *)
C32_Witness ==
    /\ cfg.revision = "backward"
    /\ g.handled = 7
    /\ Len(g.task) = 5
    /\ \A i \in 1..5 : g.task[i].snap = SnapLayout /\ g.task[i].loop = "none"
    /\ FlushedInTask = {2, 3, 4}
    /\ out.flushCount = 4

(* C33: every freeze of a root is eventually followed by an unfreeze of   *)
(* that root, also when dispose() is called between the freeze and its    *)
(* deferred unfreeze: no root stays frozen forever.                       *)
C33_FrozenLeadsToUnfrozen ==
    \A r \in Roots : roots[r].frozen ~> ~roots[r].frozen

(* rootA was frozen, dispose() was called, and the timer that ran after   *)
(* it has unfrozen the root                                               *)
C33_Witness ==
    /\ state.disposed
    /\ "timer" \in g.late
    /\ g.stored.rootA # Nil
    /\ timers = <<>>
    /\ ~roots.rootA.frozen

(* C34: after dispose() has returned neither the loop callback nor the    *)
(* flush callback is invoked again, also not for a LoopReport whose       *)
(* timer or microtask was scheduled before dispose() was called.          *)
C34_NoCallbackAfterDispose ==
    [][state.disposed => out' = out]_vars

(* C35: freeze and unfreeze alternate on each root: a deferred unfreeze   *)
(* runs only on a root that is frozen at that moment, so it never resets  *)
(* pendingLanes, callbackPriority or callbackNode values that the         *)
(* renderer wrote after the root had been unfrozen.                       *)
C35_UnfreezeOnlyOnFrozenRoot ==
    [][UnfreezeRuns =>
          LET r == Head(timers).root
          IN  \/ roots[r].frozen
              \/ \A prop \in RootProps : ReadRoot(roots'[r], prop) = ReadRoot(roots[r], prop)]_vars

(* the last firing so far happened on a commit of the current task *)
FiredInCurrentTask ==
    /\ g.lastLoop # Nil
    /\ g.lastLoop.atCommit > g.fed - g.taskCommits

(* C36: within one task at most one LoopReport of either kind is built:   *)
(* a strategy fires only in a task in which neither has fired before,     *)
(* whatever maxCommitsPerTask and maxCommitsPerWindow are.                 *)
C36_OneLoopReportPerTask ==
    [][LoopFires => ~FiredInCurrentTask]_vars

(* commit i of the current task is the one on which the bounded strategy  *)
(* fired, or a later one                                                  *)
AfterBoundedFiring(i) == \E k \in 1..i : g.task[k].loop = "sync"

(* C37: once the bounded strategy has fired in a task, no FlushReport is  *)
(* emitted for the firing commit or for any later commit of that task,    *)
(* whatever their snapshots, stacks and forward-prediction bits (both     *)
(* revisions).                                                            *)
C37_NoFlushReportAfterBoundedFiring ==
    [][/\ \A i \in 1..Len(g.task) : AfterBoundedFiring(i) => ~g.task[i].flushed
       /\ (CommitHandled /\ g.syncFires > 0) => out' = out
       /\ BoundedFires => out' = out]_vars

(* the bounded strategy fired on the second commit of a task; two more    *)
(* commits followed in that task, with the bit set, a layout effect and   *)
(* flushSync on the stack, and only the one before the firing was reported *)
C37_Witness ==
    /\ cfg.revision = "forward"
    /\ cfg.maxCommitsPerTask = 2
    /\ Len(g.task) = 4
    /\ g.task[3].loop = "sync"
    /\ g.task[4].bit /\ g.task[3].cascade
    /\ g.task[4].snap = SnapLayout /\ g.task[3].snap = SnapLayout
    /\ g.task[4].stk = StackFlushSync
    /\ FlushedInTask = {2}
    /\ out.flushCount = 1

(* the objects that name exactly one strategy *)
OneStrategyValues ==
    {value \in BreakValues :
        /\ "b" \notin DOMAIN value
        /\ (value.sync = Absent) # (value.async = Absent)}

(* C38 as stated: setBreakOnLoop with an object that names one strategy   *)
(* sets that strategy's mode and leaves the other strategy's mode as it   *)
(* was before the call.                                                   *)
C38_PartialObjectKeepsOtherMode ==
    [][\A enabled \in OneStrategyValues :
          SetBreakOnLoop(enabled)
              => IF enabled.sync # Absent
                 THEN /\ breakConfig'.sync = (enabled.sync = "true")
                      /\ breakConfig'.async = breakConfig.async
                 ELSE /\ breakConfig'.async = (enabled.async = "true")
                      /\ breakConfig'.sync = breakConfig.sync]_vars

(* C38 amended: setBreakOnLoop with an object that names one strategy     *)
(* sets that strategy's mode and puts the other strategy in break mode,   *)
(* whatever its mode was before the call.                                 *)
C38_PartialObjectResetsOtherMode ==
    [][\A enabled \in OneStrategyValues :
          SetBreakOnLoop(enabled)
              => IF enabled.sync # Absent
                 THEN /\ breakConfig'.sync = (enabled.sync = "true")
                      /\ breakConfig'.async
                 ELSE /\ breakConfig'.async = (enabled.async = "true")
                      /\ breakConfig'.sync]_vars

(* a detector created with breakOnLoop: false, after a call with          *)
(* {sync: false}: the unbounded strategy fired and froze the root         *)
C38_Witness ==
    /\ cfg.breakOnLoop = [b |-> FALSE]
    /\ g.requested = [sync |-> "false", async |-> Absent]
    /\ breakConfig = [sync |-> FALSE, async |-> TRUE]
    /\ g.handled = 2
    /\ g.frozenBy.rootA = "async"
    /\ roots.rootA.frozen

(* the time of the k-th most recent commit written to the ring buffer *)
RecordedBack(k) == g.recorded[Len(g.recorded) - k + 1]

(* C39: the write cursor is always within 0 .. maxCommitsPerWindow - 1,   *)
(* and whenever the filled flag is set the slot at the cursor holds the   *)
(* oldest of the last maxCommitsPerWindow recorded timestamps, so the     *)
(* span the unbounded check measures is the time between now and the      *)
(* maxCommitsPerWindow-th most recent recorded commit.                    *)
C39_CursorAtOldestRecorded ==
    /\ state.windowWritePos \in 0..(cfg.maxCommitsPerWindow - 1)
    /\ state.windowFilled =>
          /\ Len(g.recorded) >= cfg.maxCommitsPerWindow
          /\ state.windowTimestamps[state.windowWritePos]
                = RecordedBack(cfg.maxCommitsPerWindow)
          /\ \A k \in 1..cfg.maxCommitsPerWindow :
                 state.windowTimestamps[state.windowWritePos] <= RecordedBack(k)
          /\ windowSpan = now - RecordedBack(cfg.maxCommitsPerWindow)

(* a buffer of two slots that a bounded firing had reset was filled again *)
(* and has wrapped: the cursor is at slot 1, which holds the older of the *)
(* two timestamps                                                         *)
C39_Witness ==
    /\ cfg.maxCommitsPerWindow = 2
    /\ g.syncTotal >= 1
    /\ Len(g.recorded) < Len(g.times)
    /\ state.windowFilled
    /\ state.windowWritePos = 1
    /\ state.windowTimestamps[1] < state.windowTimestamps[0]

(* C40: at most one task-boundary message is in flight at any time; while *)
(* the detector is not disposed the per-task commit counter equals the    *)
(* number of commits handled since the last task-boundary reset, and a    *)
(* message is in flight exactly when the current task has a commit, so    *)
(* each such task is followed by one reset.                               *)
C40_OneBoundaryPerTask ==
    [][/\ channel.inFlight \in {0, 1}
       /\ ~state.disposed =>
             /\ state.commitCountInCurrentTask = g.taskCommits
             /\ channel.inFlight = 1 <=> g.taskCommits > 0
             /\ state.taskBoundaryPending <=> channel.inFlight = 1
       /\ BoundaryDelivered =>
             /\ state'.commitCountInCurrentTask = 0
             /\ channel'.inFlight = 0
             /\ ~state'.taskBoundaryPending]_vars

(* a task of three commits, after an earlier task that was reset, with    *)
(* its one message in flight                                              *)
C40_Witness ==
    /\ ~state.disposed
    /\ g.handled = 5
    /\ g.taskCommits = 3
    /\ state.commitCountInCurrentTask = 3
    /\ channel.inFlight = 1

============================================================================
